---- MODULE Spec2Model ----
(***************************************************************************)
(* A model of iso2god-rs: volume-layout detection, directory enumeration   *)
(* and path lookup of the disc image reader, the container writer          *)
(* (write_part, HashList, the backward master-hash chain, a worker pool),  *)
(* the selection and parsing of the title executable, and the header       *)
(* builder.                                                                *)
(*                                                                         *)
(* Every subsystem has its own specification (SpecDetect, SpecDetectAll,   *)
(* SpecDir, SpecHashList, SpecGod, SpecGodPair, SpecGodPar, SpecExe,       *)
(* SpecHeader).  The variables of the subsystems a specification does not  *)
(* exercise stay at their idle value.                                      *)
(***************************************************************************)
EXTENDS Integers, Sequences, FiniteSets, TLC

VARIABLES
    dStream,    \* detection: the image stream, [len, sig]
    dRoutine,   \* detection: which of the three detection routines runs
    dIdx,       \* detection: index of the next candidate to probe
    dResult,    \* detection: the routine's return value, <<"pending">> while it runs
    img,        \* directories: the filesystem image, [root, nsec, secs]
    rdr,        \* directories: which directory reader runs
    stack,      \* directories: DirectoryTable::read's call stack (eager reader)
    ext,        \* directories: DirIter's extent / Dir::read_from_range's sector range
    pos,        \* directories: the reader's stream position
    out,        \* directories: the entries a lazy reader has produced so far
    res,        \* directories: the reader's return value, kind "pending" while it runs
    lookups,    \* directories: the IsoReader::get_entry calls made, <<path, result>>
    src,        \* writer: the data region converted, [len, mark]
    parts,      \* writer: per part, write_part's locals and the part file
    gpc,        \* writer: main's position: "parts", "chain", "done"
    mht,        \* writer: the backward pass's mht
    cidx,       \* writer: the backward pass's loop: prev_part_index + 1 of its next iteration
    hdr,        \* writer: the header fields set
    snaps,      \* writer: the master HashLists on disk when each backward pass began
    clog,       \* writer: the parts the running backward pass has rewritten, in order
    prev,       \* writer: the source and header digest of an earlier conversion
    hlist,      \* HashList round trip: the buffer of H
    hadds,      \* HashList round trip: the add_hash calls made
    hback,      \* HashList round trip: <<the HashList read back>>
    eimg,       \* executables: the image, [table, xex, xbe, huge, stream]
    epc,        \* executables: from_image's position
    epos,       \* executables: the reader's stream position
    eloc,       \* executables: from_image's and the parser's locals
    eres,       \* executables: from_image's return value, kind "pending" while it runs
    bplan,      \* header: the field inputs of the two builders
    bld,        \* header: the two builders, [state, buffer, before, calls, last]
    pref        \* writer: the part files of the run in index order, for the pool's run

dvars == <<dStream, dRoutine, dIdx, dResult>>
fvars == <<img, rdr, stack, ext, pos, out, res, lookups>>
gvars == <<src, parts, gpc, mht, cidx, hdr, snaps, clog, prev>>
hvars == <<hlist, hadds, hback>>
evars == <<eimg, epc, epos, eloc, eres>>
\* the variables of the subsystems after the writer
bvars == <<bplan, bld>>
pvars == <<pref>>
xvars == <<evars, bvars, pvars>>
vars == <<dStream, dRoutine, dIdx, dResult, img, rdr, stack, ext, pos, out, res, lookups,
          src, parts, gpc, mht, cidx, hdr, snaps, clog, prev, hlist, hadds, hback,
          eimg, epc, epos, eloc, eres, bplan, bld, pref>>

(***************************************************************************)
(* Generic helpers                                                         *)
(***************************************************************************)
Min(a, b) == IF a <= b THEN a ELSE b
Max(a, b) == IF a >= b THEN a ELSE b
div_floor_plus_one(a, b) == a \div b + 1
div_ceil(a, b) == (a + b - 1) \div b

(***************************************************************************)
(* 1. Volume-layout detection                                              *)
(***************************************************************************)
SECTOR_SIZE == 2048
DESCRIPTOR_OFFSET == 32 * SECTOR_SIZE
MagicLen == 20

IsoTypes == {"Xgd3", "Xgd2", "Xgd1", "Xsf"}

\* IsoType::root_offset, IsoType::gdfx_volume_offset, Iso::data_volume_offset
root_offset(t) ==
    CASE t = "Xgd3" -> 34078720      \* 0x2080000
      [] t = "Xgd2" -> 265879552     \* 0xfd90000
      [] t = "Xgd1" -> 405798912     \* 0x18300000
      [] t = "Xsf"  -> 0

\* first byte after the 20 signature bytes of candidate t
SigEnd(t) == root_offset(t) + DESCRIPTOR_OFFSET + MagicLen
\* first byte after root-dir sector, root-dir size and creation time (4+4+8)
DescEnd(t) == SigEnd(t) + 16

\* A stream is its length and the set of candidates at whose descriptor
\* position the 20 bytes MICROSOFT*XBOX*MEDIA stand.  Bytes past the end of
\* the stream do not exist, so only readable positions carry a signature.
StreamLens == {0} \cup UNION {{SigEnd(t) - 1, SigEnd(t), DescEnd(t) - 1, DescEnd(t)} : t \in IsoTypes}
Streams == UNION {{[len |-> l, sig |-> s] : s \in SUBSET {t \in IsoTypes : SigEnd(t) <= l}}
                      : l \in StreamLens}

\* seek(at) followed by read_exact(n bytes): Ok iff the bytes exist
read_exact_ok(s, at, n) == at + n <= s.len

\* the 20 bytes read at candidate t's descriptor position equal the magic
magic_at(s, t) == t \in s.sig

check_fallback(s, t) ==
    IF t = "Xgd3" THEN TRUE
    ELSE /\ read_exact_ok(s, DESCRIPTOR_OFFSET + root_offset(t), MagicLen)
         /\ magic_at(s, t)

\* IsoType::check: UnexpectedEof is "no match"
check(s, t) ==
    /\ read_exact_ok(s, 32 * SECTOR_SIZE + root_offset(t), MagicLen)
    /\ magic_at(s, t)

\* the order of the four checks in IsoType::read
IsoTypeReadOrder == <<"Xsf", "Xgd2", "Xgd1", "Xgd3">>
\* IsoType::SUPPORTED_TYPES (iso_fs.rs)
SUPPORTED_TYPES == <<"Xgd3", "Xgd2", "Xgd1", "Xsf">>
\* Iso::ALL_SUPPORTED (new/iso.rs)
ALL_SUPPORTED == <<"Xgd3", "Xgd2", "Xgd1", "Xsf">>

\* Fs::try_read_from_offset: NotFound when the magic is unreadable or
\* different, an I/O error when the stream ends inside the 16 bytes after it
try_read_from_offset(s, t) ==
    IF ~read_exact_ok(s, root_offset(t) + 32 * SECTOR_SIZE, MagicLen) THEN <<"NotFound">>
    ELSE IF ~magic_at(s, t) THEN <<"NotFound">>
    ELSE IF ~read_exact_ok(s, SigEnd(t), 16) THEN <<"Io">>
    ELSE <<"Ok", t>>

Routines == {"IsoType_read", "Fs_try_read_from_iso", "Iso_read_from_range"}

DetectIdle ==
    /\ dStream = [len |-> 0, sig |-> {}]
    /\ dRoutine = "idle"
    /\ dIdx = 0
    /\ dResult = <<"idle">>

DetectInit ==
    /\ dStream \in Streams
    /\ dRoutine \in Routines
    /\ dIdx = 1
    /\ dResult = <<"pending">>

\* IsoType::read: one check per step, Ok(None) after the last one
IsoType_read ==
    /\ dRoutine = "IsoType_read"
    /\ dResult = <<"pending">>
    /\ IF dIdx > Len(IsoTypeReadOrder)
         THEN dResult' = <<"None">> /\ dIdx' = dIdx
         ELSE IF check(dStream, IsoTypeReadOrder[dIdx])
                THEN dResult' = <<"Ok", IsoTypeReadOrder[dIdx]>> /\ dIdx' = dIdx
                ELSE dResult' = dResult /\ dIdx' = dIdx + 1
    /\ UNCHANGED <<dStream, dRoutine>>
    /\ UNCHANGED <<fvars, gvars, hvars, xvars>>

\* Fs::try_read_from_iso: one loop iteration per step
Fs_try_read_from_iso ==
    /\ dRoutine = "Fs_try_read_from_iso"
    /\ dResult = <<"pending">>
    /\ IF dIdx > Len(SUPPORTED_TYPES)
         THEN dResult' = <<"NotFound">> /\ dIdx' = dIdx
         ELSE LET r == try_read_from_offset(dStream, SUPPORTED_TYPES[dIdx])
              IN IF r = <<"NotFound">>
                   THEN dResult' = dResult /\ dIdx' = dIdx + 1
                   ELSE dResult' = r /\ dIdx' = dIdx
    /\ UNCHANGED <<dStream, dRoutine>>
    /\ UNCHANGED <<fvars, gvars, hvars, xvars>>

\* Iso::read_from_range with off = 0 (read_whole): one loop iteration per step
Iso_read_from_range ==
    /\ dRoutine = "Iso_read_from_range"
    /\ dResult = <<"pending">>
    /\ IF dIdx > Len(ALL_SUPPORTED)
         THEN dResult' = <<"InvalidData">> /\ dIdx' = dIdx
         ELSE LET iso == ALL_SUPPORTED[dIdx]
                  magic_offset == root_offset(iso) + DESCRIPTOR_OFFSET
              IN IF read_exact_ok(dStream, 0 + magic_offset, MagicLen) /\ magic_at(dStream, iso)
                   THEN dResult' = <<"Ok", iso>> /\ dIdx' = dIdx
                   ELSE dResult' = dResult /\ dIdx' = dIdx + 1
    /\ UNCHANGED <<dStream, dRoutine>>
    /\ UNCHANGED <<fvars, gvars, hvars, xvars>>

DetectNext == IsoType_read \/ Fs_try_read_from_iso \/ Iso_read_from_range

\* VolumeDescriptor::read_of_type: the signature and the 16 bytes after it
\* are read with `?`
read_of_type(s, t) ==
    IF ~read_exact_ok(s, 32 * SECTOR_SIZE + root_offset(t), MagicLen) THEN <<"Io">>
    ELSE IF ~read_exact_ok(s, SigEnd(t), 4 + 4 + 8) THEN <<"Io">>
    ELSE <<"Ok", t>>

\* VolumeDescriptor::read: IsoType::read, one check per step, then
\* read_of_type of the type found
VolumeDescriptor_read ==
    /\ dRoutine = "VolumeDescriptor_read"
    /\ dResult = <<"pending">>
    /\ IF dIdx > Len(IsoTypeReadOrder)
         THEN dResult' = <<"invalid ISO format">> /\ dIdx' = dIdx
         ELSE IF check(dStream, IsoTypeReadOrder[dIdx])
                THEN dResult' = read_of_type(dStream, IsoTypeReadOrder[dIdx]) /\ dIdx' = dIdx
                ELSE dResult' = dResult /\ dIdx' = dIdx + 1
    /\ UNCHANGED <<dStream, dRoutine>>
    /\ UNCHANGED <<fvars, gvars, hvars, xvars>>

\* the three routines and VolumeDescriptor::read
DetectAllInit ==
    /\ dStream \in Streams
    /\ dRoutine \in Routines \cup {"VolumeDescriptor_read"}
    /\ dIdx = 1
    /\ dResult = <<"pending">>

DetectAllNext == DetectNext \/ VolumeDescriptor_read

(***************************************************************************)
(* 2. Directory enumeration and path lookup                                *)
(***************************************************************************)
\* An image is the root-directory extent of its volume descriptor, its
\* number of sectors, and for every sector the directory records laid out
\* from the sector's start; the rest of the sector is 0xFF padding.  The
\* filesystem starts at stream offset 0 (IsoType::Xsf).
\* A record is [left, right, sector, size, dir, name]; name is a sequence of
\* one-character strings.  cut is the length of a stream that ends before the
\* end of its last sector, 0 for a stream of whole sectors.
NOLINK == 0
SENTINEL == 65535

File(name, sector) ==
    [left |-> NOLINK, right |-> NOLINK, sector |-> sector, size |-> 100, dir |-> FALSE, name |-> name]
Subdir(name, sector, size) ==
    [left |-> NOLINK, right |-> NOLINK, sector |-> sector, size |-> size, dir |-> TRUE, name |-> name]
EndMark(left, right) ==
    [left |-> left, right |-> right, sector |-> 0, size |-> 0, dir |-> FALSE, name |-> <<>>]

Image(rootSize, secs) ==
    [root |-> [sector |-> 0, size |-> rootSize], nsec |-> Len(secs), secs |-> secs, cut |-> 0]

Images == {
    \* one sector, two files
    Image(SECTOR_SIZE, << <<File(<<"a">>, 5), File(<<"B">>, 6)>>, <<>> >>),
    \* two sectors, one file each
    Image(2 * SECTOR_SIZE, << <<File(<<"a">>, 5)>>, <<File(<<"b">>, 6)>>, <<>> >>),
    \* three sectors, the middle one unused
    Image(3 * SECTOR_SIZE, << <<File(<<"a">>, 5)>>, <<>>, <<File(<<"b">>, 6), File(<<"d">>, 7)>>, <<>> >>),
    \* a subdirectory of one sector
    Image(SECTOR_SIZE, << <<Subdir(<<"d">>, 1, SECTOR_SIZE), File(<<"A">>, 7)>>, <<File(<<"a">>, 8)>>, <<>> >>),
    \* a subdirectory of two sectors
    Image(SECTOR_SIZE, << <<Subdir(<<"D">>, 1, 2 * SECTOR_SIZE)>>, <<File(<<"a">>, 8)>>, <<File(<<"b">>, 9)>>, <<>> >>),
    \* an end mark in the left field only, in the right field only
    Image(2 * SECTOR_SIZE, << <<File(<<"a">>, 5), EndMark(SENTINEL, NOLINK), File(<<"d">>, 7)>>,
                              <<EndMark(NOLINK, SENTINEL), File(<<"d">>, 7)>>, <<>> >>)
}

Align4(p) == p + ((4 - (p % 4)) % 4)
\* the bytes a record takes: left, right, sector, size, attributes, name
\* length (2+2+4+4+1+1), the name, and the padding to a multiple of 4
RecordBytes(r) == Align4(14 + Len(r.name))

RECURSIVE FindRecord(_, _, _, _)
\* the index of the record of recs that starts at byte off of its sector
\* (record k starts at byte acc), 0 when byte off lies in the padding
FindRecord(recs, k, acc, off) ==
    IF k > Len(recs) THEN 0
    ELSE IF acc = off THEN k
    ELSE IF acc > off THEN 0
    ELSE FindRecord(recs, k + 1, acc + RecordBytes(recs[k]), off)

StreamLen(im) == IF im.cut = 0 THEN im.nsec * SECTOR_SIZE ELSE im.cut

\* the byte 0 a name buffer is initialised with, as a character
NUL == "NUL"
\* the name after a read of n bytes into a zeroed buffer of its length
ShortName(name, n) == [i \in 1..Len(name) |-> IF i <= n THEN name[i] ELSE NUL]

\* One directory record read at stream position p: an I/O error when the
\* stream ends inside left, right or the ten bytes after them, None on 0xffff
\* in left or right, else the entry and the position after the alignment
\* seek.  The name is read with read_exact (exact) or with one read.
read_record(im, p, exact) ==
    IF p + 4 > StreamLen(im) THEN [kind |-> "eof"]
    ELSE LET recs == im.secs[(p \div SECTOR_SIZE) + 1]
             k == FindRecord(recs, 1, 0, p % SECTOR_SIZE)
         IN IF k = 0 THEN [kind |-> "none"]
            ELSE IF recs[k].left = 65535 \/ recs[k].right = 65535 THEN [kind |-> "none"]
            ELSE IF p + 14 > StreamLen(im) THEN [kind |-> "eof"]
            ELSE IF p + 14 + Len(recs[k].name) > StreamLen(im)
              THEN IF exact THEN [kind |-> "eof"]
                   ELSE [kind |-> "some",
                         rec |-> [recs[k] EXCEPT !.name = ShortName(@, StreamLen(im) - (p + 14))],
                         next |-> Align4(StreamLen(im))]
            ELSE [kind |-> "some", rec |-> recs[k],
                  next |-> Align4(p + 14 + Len(recs[k].name))]

\* DirEntry::try_read and the loop body of Dir::read_from_range:
\* reader.read_exact(&mut name_buf[..name_len])
try_read(im, p) == read_record(im, p, TRUE)
\* DirectoryEntry::read: reader.take(name_length).read(&mut name), which
\* stores the bytes the stream still has and reports no error
read_take(im, p) == read_record(im, p, FALSE)

Pending == [kind |-> "pending"]
Ok(v) == [kind |-> "Ok", val |-> v]
Err == [kind |-> "Err"]
\* the process was ended: the thread overflowed its stack
Abort == [kind |-> "abort"]
\* the number of nested activations of a recursive reader the stack holds
MaxDepth == 4

\* ---- DirectoryTable::read and DirectoryEntry::read (eager, recursive) ----
\* A frame is one activation of DirectoryTable::read: its arguments, its
\* final_position, the entries pushed so far and, while the subdirectory of
\* an entry is being read, that entry (pend) and reader_position (ret).
Frame(sector, size) ==
    [sector |-> sector, size |-> size, final |-> sector * SECTOR_SIZE + 0 + size,
     entries |-> <<>>, pend |-> <<>>, ret |-> 0]
Table(f) == [sector |-> f.sector, size |-> f.size, entries |-> f.entries]
Entry(rec, sub) == [rec |-> rec, subdirectory |-> sub]

RECURSIVE ReturnTable(_)
\* DirectoryTable::read returns from the top frame: the caller
\* (DirectoryEntry::read) seeks back to reader_position, the entry is pushed
\* and the caller's loop breaks too when that position is at or past its
\* final_position.
ReturnTable(stk) ==
    LET n == Len(stk)
        tbl == Table(stk[n])
    IN IF n = 1 THEN [stack |-> <<>>, pos |-> 0, res |-> Ok(tbl)]
       ELSE LET parent == stk[n - 1]
                done == [parent EXCEPT !.entries = Append(@, Entry(parent.pend[1], <<tbl>>)),
                                       !.pend = <<>>]
                rest == Append(SubSeq(stk, 1, n - 2), done)
            IN IF parent.ret >= parent.final THEN ReturnTable(rest)
               ELSE [stack |-> rest, pos |-> parent.ret, res |-> Pending]

DirectoryEntry_read ==
    /\ rdr = "DirectoryTable"
    /\ res.kind = "pending"
    /\ LET n == Len(stack)
           top == stack[n]
           r == read_take(img, pos)
       IN CASE r.kind = "eof" ->
                 /\ res' = Err
                 /\ UNCHANGED <<stack, pos>>
            [] r.kind = "none" ->
                 LET s == ReturnTable(stack)
                 IN stack' = s.stack /\ pos' = s.pos /\ res' = s.res
            [] r.kind = "some" /\ ~r.rec.dir ->
                 LET stk == [stack EXCEPT ![n].entries = Append(@, Entry(r.rec, <<>>))]
                 IN IF r.next >= top.final
                      THEN LET s == ReturnTable(stk)
                           IN stack' = s.stack /\ pos' = s.pos /\ res' = s.res
                      ELSE stack' = stk /\ pos' = r.next /\ res' = res
            [] r.kind = "some" /\ r.rec.dir ->
                 IF n >= MaxDepth
                   THEN res' = Abort /\ UNCHANGED <<stack, pos>>
                   ELSE /\ stack' = Append([stack EXCEPT ![n].pend = <<r.rec>>, ![n].ret = r.next],
                                           Frame(r.rec.sector, r.rec.size))
                        /\ pos' = r.rec.sector * SECTOR_SIZE + 0
                        /\ res' = res
    /\ UNCHANGED <<img, rdr, ext, out, lookups>>
    /\ UNCHANGED <<dvars, gvars, hvars, xvars>>

\* ---- DirIter (iso_fs.rs, lazy) ------------------------------------------
advance_start(e) ==
    IF e.size = 0 THEN e
    ELSE [sector |-> e.sector + 1, size |-> Max(e.size - SECTOR_SIZE, 0)]

RECURSIVE try_next(_, _, _)
\* DirIter::try_next: on None advance the extent by one sector and seek to it
try_next(im, e, p) ==
    IF e.size = 0 THEN [kind |-> "end", ext |-> e, pos |-> p]
    ELSE LET r == try_read(im, p)
         IN IF r.kind = "none"
              THEN LET e2 == advance_start(e)
                   IN try_next(im, e2, 0 + e2.sector * SECTOR_SIZE)
              ELSE [kind |-> r.kind, rec |-> IF r.kind = "some" THEN <<r.rec>> ELSE <<>>,
                    ext |-> e, pos |-> IF r.kind = "some" THEN r.next ELSE p]

DirIter_next ==
    /\ rdr = "DirIter"
    /\ res.kind = "pending"
    /\ LET r == try_next(img, ext, pos)
       IN /\ ext' = r.ext
          /\ pos' = r.pos
          /\ CASE r.kind = "some" -> out' = Append(out, r.rec[1]) /\ res' = res
               [] r.kind = "end"  -> out' = out /\ res' = Ok(out)
               [] r.kind = "eof"  -> out' = out /\ res' = Err
    /\ UNCHANGED <<img, rdr, stack, lookups>>
    /\ UNCHANGED <<dvars, gvars, hvars, xvars>>

\* ---- Dir::read_from_range (new/gdfx.rs, lazy) ---------------------------
\* ext = [off, end]: sector_off of the running iteration of the for loop and
\* off + len; one record is read per step.
Dir_read_from_range ==
    /\ rdr = "Dir"
    /\ res.kind = "pending"
    /\ IF ext.off >= ext.end
         THEN res' = Ok(out) /\ UNCHANGED <<ext, pos, out>>
         ELSE LET r == try_read(img, pos)
              IN CASE r.kind = "eof"  -> res' = Err /\ UNCHANGED <<ext, pos, out>>
                   [] r.kind = "none" ->
                        /\ ext' = [ext EXCEPT !.off = @ + SECTOR_SIZE]
                        /\ pos' = ext.off + SECTOR_SIZE
                        /\ UNCHANGED <<out, res>>
                   [] r.kind = "some" ->
                        /\ out' = Append(out, r.rec)
                        /\ pos' = r.next
                        /\ UNCHANGED <<ext, res>>
    /\ UNCHANGED <<img, rdr, stack, lookups>>
    /\ UNCHANGED <<dvars, gvars, hvars, xvars>>

\* ---- walk (new/gdfx.rs, lazy, whole tree) --------------------------------
RECURSIVE read_from_range(_, _, _, _, _)
\* Dir::read_from_range as a function: the for loop over the sectors from
\* off up to end, at position p, with the entries acc pushed so far
read_from_range(im, off, end, p, acc) ==
    IF off >= end THEN Ok(acc)
    ELSE LET r == try_read(im, p)
         IN CASE r.kind = "eof"  -> Err
              [] r.kind = "none" -> read_from_range(im, off + SECTOR_SIZE, end, off + SECTOR_SIZE, acc)
              [] r.kind = "some" -> read_from_range(im, off, end, r.next, Append(acc, r.rec))

\* an activation of rec: its dir_ref, the entries read from it (once read)
\* and the index of the entry the for loop is at
WalkFrame(off, len) == [off |-> off, len |-> len, read |-> FALSE, entries |-> <<>>, idx |-> 1]

\* rec: the directory is read when the activation starts; then one entry per
\* step: f(path, entry) is called (out) and rec is entered for a directory
walk_rec ==
    /\ rdr = "walk"
    /\ res.kind = "pending"
    /\ LET n == Len(stack)
           top == stack[n]
       IN IF ~top.read
            THEN LET d == read_from_range(img, top.off, top.off + top.len, top.off, <<>>)
                 IN IF d.kind = "Err"
                      THEN res' = Err /\ UNCHANGED <<stack, out>>
                      ELSE /\ stack' = [stack EXCEPT ![n].read = TRUE, ![n].entries = d.val]
                           /\ UNCHANGED <<out, res>>
            ELSE IF top.idx > Len(top.entries)
            THEN /\ stack' = SubSeq(stack, 1, n - 1)
                 /\ res' = IF n = 1 THEN Ok(out) ELSE res
                 /\ out' = out
            ELSE LET entry == top.entries[top.idx]
                     advanced == [stack EXCEPT ![n].idx = @ + 1]
                 IN /\ out' = Append(out, entry)
                    /\ IF ~entry.dir THEN stack' = advanced /\ res' = res
                       ELSE IF n >= MaxDepth THEN stack' = stack /\ res' = Abort
                       ELSE /\ stack' = Append(advanced, WalkFrame(0 + SECTOR_SIZE * entry.sector, entry.size))
                            /\ res' = res
    /\ UNCHANGED <<img, rdr, ext, pos, lookups>>
    /\ UNCHANGED <<dvars, gvars, hvars, xvars>>

\* ---- IsoReader::get_entry -----------------------------------------------
RECURSIVE split(_, _, _)
\* str::split('\\') followed by filter(!is_empty): cur is the component
\* being collected
split(s, i, cur) ==
    IF i > Len(s) THEN (IF cur = <<>> THEN <<>> ELSE <<cur>>)
    ELSE IF s[i] = "\\"
           THEN (IF cur = <<>> THEN <<>> ELSE <<cur>>) \o split(s, i + 1, <<>>)
           ELSE split(s, i + 1, Append(cur, s[i]))
WindowsPath_from(s) == split(s, 1, <<>>)

RECURSIVE find(_, _, _)
\* entries.iter().find(|e| e.name == name): Some(first match) or None
find(entries, i, name) ==
    IF i > Len(entries) THEN <<>>
    ELSE IF entries[i].rec.name = name THEN <<entries[i]>>
    ELSE find(entries, i + 1, name)

ToLowerChar(c) ==
    CASE c = "A" -> "a" [] c = "B" -> "b" [] c = "D" -> "d" [] OTHER -> c
ToLower(s) == [i \in 1..Len(s) |-> ToLowerChar(s[i])]

RECURSIVE find_ignore_case(_, _, _)
find_ignore_case(entries, i, name) ==
    IF i > Len(entries) THEN <<>>
    ELSE IF ToLower(entries[i].rec.name) = ToLower(name) THEN <<entries[i]>>
    ELSE find_ignore_case(entries, i + 1, name)

\* DirectoryTable::get_entry
DirectoryTable_get_entry(tbl, name) == find(tbl.entries, 1, name)

RECURSIVE get_entry_loop(_, _, _, _)
\* the for loop of IsoReader::get_entry over path.components; entry and dir
\* are Options (<<>> is None)
get_entry_loop(components, i, entry, dir) ==
    IF i > Len(components) THEN entry
    ELSE LET e == IF dir = <<>> THEN <<>> ELSE DirectoryTable_get_entry(dir[1], components[i])
             d == IF e = <<>> THEN <<>> ELSE e[1].subdirectory
         IN get_entry_loop(components, i + 1, e, d)

\* IsoReader::get_entry: the position the reader is left at, or None
get_entry(tbl, path) ==
    LET entry == get_entry_loop(path, 1, <<>>, <<tbl>>)
    IN IF entry = <<>> THEN <<>>
       ELSE <<0 + entry[1].rec.sector * SECTOR_SIZE>>

PathStrings == {
    <<"\\", "a">>, <<"\\", "A">>, <<"\\", "b">>, <<"\\", "B">>,
    <<"\\", "d", "\\", "a">>, <<"\\", "D", "\\", "\\", "A">>, <<"d", "\\", "a", "\\">>,
    <<"\\">>, <<"\\", "a", "\\", "a">>
}
MaxLookups == 2

IsoReader_get_entry ==
    /\ rdr = "DirectoryTable"
    /\ res.kind = "Ok"
    /\ Cardinality(lookups) < MaxLookups
    /\ \E s \in PathStrings :
          /\ \A l \in lookups : l[1] # s
          /\ lookups' = lookups \cup {<<s, get_entry(res.val, WindowsPath_from(s))>>}
    /\ UNCHANGED <<img, rdr, stack, ext, pos, out, res>>
    /\ UNCHANGED <<dvars, gvars, hvars, xvars>>

DirIdle ==
    /\ img = [root |-> [sector |-> 0, size |-> 0], nsec |-> 0, secs |-> <<>>, cut |-> 0]
    /\ rdr = "idle"
    /\ stack = <<>>
    /\ ext = [sector |-> 0, size |-> 0]
    /\ pos = 0
    /\ out = <<>>
    /\ res = [kind |-> "idle"]
    /\ lookups = {}

DirInit ==
    /\ img \in Images
    /\ rdr \in {"DirectoryTable", "DirIter", "Dir"}
    /\ stack = IF rdr = "DirectoryTable" THEN <<Frame(img.root.sector, img.root.size)>> ELSE <<>>
    /\ ext = IF rdr = "Dir"
               THEN [off |-> 0 + img.root.sector * SECTOR_SIZE,
                     end |-> 0 + img.root.sector * SECTOR_SIZE + img.root.size]
               ELSE img.root
    /\ pos = 0 + img.root.sector * SECTOR_SIZE
    /\ out = <<>>
    /\ res = Pending
    /\ lookups = {}

DirNext == DirectoryEntry_read \/ DirIter_next \/ Dir_read_from_range \/ IsoReader_get_entry

\* ---- streams that end inside a record, directories that contain themselves ----
CutAt(im, n) == [im EXCEPT !.cut = n]
TreeImages == {
    \* a root directory of 16 bytes, one record with a name of two bytes;
    \* the stream ends inside left/right, inside the fixed fields, in front
    \* of the name, inside the name
    CutAt(Image(16, << <<File(<<"a", "b">>, 5)>> >>), 3),
    CutAt(Image(16, << <<File(<<"a", "b">>, 5)>> >>), 10),
    CutAt(Image(16, << <<File(<<"a", "b">>, 5)>> >>), 14),
    CutAt(Image(16, << <<File(<<"a", "b">>, 5)>> >>), 15),
    \* the stream ends inside the name of the first of two records
    CutAt(Image(SECTOR_SIZE, << <<File(<<"a", "b">>, 5), File(<<"d">>, 6)>> >>), 15),
    \* the stream ends inside the name of the second record, in the padding
    CutAt(Image(SECTOR_SIZE, << <<File(<<"a", "b">>, 5), File(<<"d", "a", "b">>, 6)>> >>), 31),
    CutAt(Image(SECTOR_SIZE, << <<File(<<"a", "b">>, 5), File(<<"d">>, 6)>> >>), 100),
    \* the stream ends inside a record of a subdirectory
    CutAt(Image(SECTOR_SIZE, << <<Subdir(<<"d">>, 1, 16), File(<<"a">>, 7)>>,
                                <<File(<<"a", "b">>, 8)>> >>), SECTOR_SIZE + 15),
    \* whole streams: a subdirectory, nested subdirectories
    Image(SECTOR_SIZE, << <<Subdir(<<"d">>, 1, SECTOR_SIZE), File(<<"A">>, 7)>>, <<File(<<"a">>, 8)>>, <<>> >>),
    Image(SECTOR_SIZE, << <<File(<<"b">>, 7), Subdir(<<"d">>, 1, SECTOR_SIZE)>>,
                          <<Subdir(<<"a">>, 2, SECTOR_SIZE)>>, <<File(<<"a">>, 8)>>, <<>> >>),
    \* a directory whose entry points at the directory itself
    Image(SECTOR_SIZE, << <<Subdir(<<"d">>, 0, SECTOR_SIZE), File(<<"a">>, 7)>>, <<>> >>),
    \* a directory whose entry points at its parent
    Image(SECTOR_SIZE, << <<File(<<"a">>, 7), Subdir(<<"d">>, 1, SECTOR_SIZE)>>,
                          <<Subdir(<<"a">>, 0, SECTOR_SIZE)>>, <<>> >>)
}

TreeInit ==
    /\ img \in TreeImages
    /\ rdr \in {"DirectoryTable", "DirIter", "Dir", "walk"}
    /\ stack = CASE rdr = "DirectoryTable" -> <<Frame(img.root.sector, img.root.size)>>
                 [] rdr = "walk" -> <<WalkFrame(0 + SECTOR_SIZE * img.root.sector, img.root.size)>>
                 [] OTHER -> <<>>
    /\ ext = IF rdr = "Dir"
               THEN [off |-> 0 + img.root.sector * SECTOR_SIZE,
                     end |-> 0 + img.root.sector * SECTOR_SIZE + img.root.size]
               ELSE img.root
    /\ pos = 0 + img.root.sector * SECTOR_SIZE
    /\ out = <<>>
    /\ res = Pending
    /\ lookups = {}

TreeNext == DirectoryEntry_read \/ DirIter_next \/ Dir_read_from_range \/ walk_rec

(***************************************************************************)
(* 3. HashList                                                             *)
(***************************************************************************)
\* A 20-byte value is <<"zero">> (twenty 0 bytes) or <<"sha1", kind, data>>,
\* the SHA-1 digest of data: SHA-1 is taken to be injective and never all
\* zero.  <<"prefix", k, d>> is the first k bytes of the 20-byte value d.
\* A byte string made of such values is kept run-length encoded: a sequence
\* of runs [h, n] (n copies of h) in which neighbours differ.
HASH_SIZE == 20
Zero20 == <<"zero">>
sha1(kind, data) == <<"sha1", kind, data>>
prefix(d, k) == IF d[1] = "prefix" THEN <<"prefix", k, d[3]>> ELSE <<"prefix", k, d>>
ItemLen(h) == IF h[1] = "prefix" THEN h[2] ELSE HASH_SIZE
IsZero(h) == h[1] = "zero" \/ (h[1] = "prefix" /\ h[3][1] = "zero")

Run(h, n) == [h |-> h, n |-> n]
\* concatenation of two run-length encoded strings
Concat(a, b) ==
    IF a = <<>> THEN b
    ELSE IF b = <<>> THEN a
    ELSE IF a[Len(a)].h = b[1].h
           THEN SubSeq(a, 1, Len(a) - 1) \o <<Run(b[1].h, a[Len(a)].n + b[1].n)>> \o Tail(b)
           ELSE a \o b

RECURSIVE RunBytes(_, _)
\* the number of bytes of the runs from run i on
RunBytes(runs, i) ==
    IF i > Len(runs) THEN 0
    ELSE runs[i].n * ItemLen(runs[i].h) + RunBytes(runs, i + 1)

RECURSIVE Truncate(_, _, _)
\* the first room bytes of the runs from run i on (Vec::resize to a
\* smaller length)
Truncate(runs, i, room) ==
    IF i > Len(runs) \/ room = 0 THEN <<>>
    ELSE LET r == runs[i]
             fit == Min(r.n, room \div ItemLen(r.h))
             left == room - fit * ItemLen(r.h)
         IN IF fit = r.n THEN Concat(<<r>>, Truncate(runs, i + 1, left))
            ELSE (IF fit > 0 THEN <<Run(r.h, fit)>> ELSE <<>>)
                 \o (IF left > 0 THEN <<Run(prefix(r.h, left), 1)>> ELSE <<>>)

RECURSIVE StripZeros(_)
\* a zero-padded string is the same bytes with or without zero values in
\* front of the padding: the runs are kept without trailing zero runs
StripZeros(runs) ==
    IF runs = <<>> THEN <<>>
    ELSE IF IsZero(runs[Len(runs)].h) THEN StripZeros(SubSeq(runs, 1, Len(runs) - 1))
    ELSE runs

\* a byte string: its length and its content up to the trailing zero bytes
Bytes(len, runs) == [len |-> len, runs |-> StripZeros(runs)]

\* HashList::new
HashList_new == <<>>

add_hash_front(buffer, hash) == Concat(<<Run(hash, 1)>>, buffer)

\* HashList::add_hash: buffer.extend_from_slice(hash)
add_hash(buffer, hash) == Concat(buffer, <<Run(hash, 1)>>)

to_bytes_unpadded(buffer) == Bytes(RunBytes(buffer, 1), buffer)

\* HashList::to_bytes: buffer.clone() resized to 4096 bytes, zero filled
to_bytes(buffer) == Bytes(4096, Truncate(buffer, 1, 4096))

\* HashList::bytes, the buffer write_part hands to add_block_hash
bytes(buffer) == to_bytes(buffer)

\* HashList::digest
digest(buffer) == sha1("list", to_bytes(buffer))

add_block_hash_twice(buffer, kind, block) == add_hash(add_hash(buffer, sha1(kind, block)), sha1(kind, block))

\* HashList::add_block_hash
add_block_hash(buffer, kind, block) == add_hash(buffer, sha1(kind, block))

RECURSIVE read_chunks(_, _)
\* the loop of HashList::read over the chunks of 20 bytes (16 for the last
\* one) of the 4096 bytes: it ends at the first chunk that is empty or all
\* zero, every other chunk is appended
read_chunks(runs, i) ==
    IF i > Len(runs) \/ IsZero(runs[i].h) THEN <<>>
    ELSE Concat(<<runs[i]>>, read_chunks(runs, i + 1))

read_first_chunk(image) ==
    IF image.runs = <<>> \/ IsZero(image.runs[1].h) THEN <<>>
    ELSE <<Run(image.runs[1].h, 1)>>

\* HashList::read from the first 4096 bytes of a reader
read(image) == read_chunks(image.runs, 1)


\* the number of 20-byte entries of a buffer
Count(buffer) == RunBytes(buffer, 1) \div HASH_SIZE

HashValues == {Zero20, sha1("block", [len |-> 1, sym |-> "o"]), sha1("block", [len |-> 1, sym |-> "x"])}
MaxAdds == 4
\* the buffers the round trip starts from: empty, or 200 equal entries
StartLists == {HashList_new, <<Run(sha1("block", [len |-> 1, sym |-> "o"]), 204 - MaxAdds)>>}

HashListIdle == hlist = <<>> /\ hadds = 0 /\ hback = <<>>

HashListInit ==
    /\ hlist \in StartLists
    /\ hadds = 0
    /\ hback = <<>>

\* H.add_hash(h)
HashList_add_hash ==
    /\ hback = <<>>
    /\ hadds < MaxAdds
    /\ \E h \in HashValues : hlist' = add_hash(hlist, h)
    /\ hadds' = hadds + 1
    /\ UNCHANGED hback
    /\ UNCHANGED <<dvars, fvars, gvars, xvars>>

\* H.write(w) followed by HashList::read(w)
HashList_write_read ==
    /\ hback = <<>>
    /\ hback' = <<read(to_bytes(hlist))>>
    /\ UNCHANGED <<hlist, hadds>>
    /\ UNCHANGED <<dvars, fvars, gvars, xvars>>

HashListNext == HashList_add_hash \/ HashList_write_read

(***************************************************************************)
(* 4. ConHeaderBuilder                                                     *)
(***************************************************************************)
\* The buffer is its length and the bytes written over the template
\* (offset -> cell); an offset outside the domain holds the template's byte.
\* A cell is <<"b", n>>, the byte n, or <<"h", k, d>>, byte k of the 20-byte
\* hash d.  panicked: a write of the running call has panicked.
\* the bytes of a u32, most significant first
be_bytes(v) == <<(v \div 16777216) % 256, (v \div 65536) % 256, (v \div 256) % 256, v % 256>>
\* the bytes of a u32, least significant first
le_bytes(v) == <<v % 256, (v \div 256) % 256, (v \div 65536) % 256, (v \div 16777216) % 256>>
\* the bytes at with the bytes b stored from position p on
put(at, p, b) ==
    [q \in (DOMAIN at) \cup (p..(p + Len(b) - 1)) |->
        IF q >= p /\ q < p + Len(b) THEN b[q - p + 1] ELSE at[q]]

\* the length of the template: the hashed range 0x344..0x344+0xacbc ends at its end
EMPTY_LIVE_LEN == 45056
NoCells == [q \in {} |-> <<"b", 0>>]
ByteCells(b) == [k \in 1..Len(b) |-> <<"b", b[k]>>]
HashCells(d) == [k \in 1..HASH_SIZE |-> <<"h", k, d>>]
TemplateCell(p) == <<"t", p>>
cell_at(buffer, p) == IF p \in DOMAIN buffer.at THEN buffer.at[p] ELSE TemplateCell(p)
\* &buffer[from..to]
slice(buffer, from, to) == [q \in {p \in DOMAIN buffer.at : p >= from /\ p < to} |-> buffer.at[q]]

\* write_bytes: self.buffer[offset..offset + buf.len()].copy_from_slice(buf)
write_bytes(buffer, offset, buf) ==
    IF buffer.panicked THEN buffer
    ELSE IF offset + Len(buf) > buffer.len THEN [buffer EXCEPT !.panicked = TRUE]
    ELSE [buffer EXCEPT !.at = put(@, offset, buf)]
write_u8(buffer, offset, value) == write_bytes(buffer, offset, ByteCells(<<value>>))
write_u16_be(buffer, offset, value) ==
    write_bytes(buffer, offset, ByteCells(<<(value \div 256) % 256, value % 256>>))
\* BE::write_u24 panics on a value that does not fit three bytes
write_u24_be(buffer, offset, value) ==
    IF value > 16777215 THEN [buffer EXCEPT !.panicked = TRUE]
    ELSE write_bytes(buffer, offset, ByteCells(SubSeq(be_bytes(value), 2, 4)))
write_u32_be(buffer, offset, value) == write_bytes(buffer, offset, ByteCells(be_bytes(value)))
write_u32_le_swapped(buffer, offset, value) == write_bytes(buffer, offset, ByteCells(be_bytes(value)))
write_u32_le(buffer, offset, value) == write_bytes(buffer, offset, ByteCells(le_bytes(value)))

\* a u64 is its eight bytes, most significant first (its values pass 2^31);
\* (parts_total_size / 0x0100) as u32
div_0x100_as_u32(size) == ((size[4] * 256 + size[5]) * 256 + size[6]) * 256 + size[7]

with_block_counts(buffer, blocks_allocated, blocks_not_allocated) ==
    write_u16_be(write_u24_be(buffer, 914, blocks_allocated), 917, blocks_not_allocated)
with_content_type(buffer, content_type) == write_u32_be(buffer, 836, content_type)
with_data_parts_info(buffer, part_count, parts_total_size) ==
    write_u32_be(write_u32_le(buffer, 928, part_count), 932, div_0x100_as_u32(parts_total_size))
with_execution_info(buffer, exe_info) ==
    write_u8(write_u8(write_u8(write_u8(write_u32_be(write_u32_be(buffer,
        852, exe_info.media_id), 864, exe_info.title_id),
        868, exe_info.platform), 869, exe_info.executable_type),
        870, exe_info.disc_number), 871, exe_info.disc_count)

with_game_icon_late_assert(buffer, png_bytes) ==
    LET b == write_u32_be(write_u32_be(buffer, 5906, Len(png_bytes)), 5910, Len(png_bytes))
    IN IF Len(png_bytes) > 1024 THEN [b EXCEPT !.panicked = TRUE]
       ELSE write_bytes(write_bytes(b, 5914, png_bytes), 22298, png_bytes)

\* with_game_icon; png_bytes is the unwrapped payload (None is <<>>)
with_game_icon(buffer, png_bytes) ==
    IF Len(png_bytes) > 1024 THEN [buffer EXCEPT !.panicked = TRUE]
    ELSE write_bytes(write_bytes(write_u32_be(write_u32_be(buffer,
             5906, Len(png_bytes)), 5910, Len(png_bytes)), 5914, png_bytes), 22298, png_bytes)

finalize_digest_first(buffer) ==
    LET d == sha1("header", slice(buffer, 836, 836 + 44220))
        z == write_u8(write_u8(write_u8(write_u32_be(buffer, 0, 1279874629), 859, 0), 863, 0), 913, 0)
    IN write_bytes(z, 812, HashCells(d))

\* finalize_with_fake_signature
finalize_with_fake_signature(buffer) ==
    LET z == write_u8(write_u8(write_u8(write_u32_be(buffer, 0, 1279874629), 859, 0), 863, 0), 913, 0)
        d == sha1("header", slice(z, 836, 836 + 44220))
    IN write_bytes(z, 812, HashCells(d))

\* str::encode_utf16 of one code point: one code unit, or a surrogate pair
encode_utf16_char(c) ==
    IF c < 65536 THEN <<c>>
    ELSE <<55296 + ((c - 65536) \div 1024), 56320 + ((c - 65536) % 1024)>>
RECURSIVE encode_utf16_range(_, _, _)
\* the code units of s[lo..hi]
encode_utf16_range(s, lo, hi) ==
    IF lo > hi THEN <<>>
    ELSE IF lo = hi THEN encode_utf16_char(s[lo])
    ELSE encode_utf16_range(s, lo, (lo + hi) \div 2) \o encode_utf16_range(s, (lo + hi) \div 2 + 1, hi)
\* a string is the sequence of its code points
encode_utf16(s) == encode_utf16_range(s, 1, Len(s))

\* write_utf16_be: write_u16_be(offset + i * 2, c) for the code units of s
\* and a final 0, in order.  The effect of the loop: the units that fit
\* before the end of the buffer are stored, and the first one that does not
\* panics (slice index out of range).
write_utf16_be(buffer, offset, s) ==
    LET units == encode_utf16(s) \o <<0>>
        room == IF offset > buffer.len THEN 0 ELSE (buffer.len - offset) \div 2
        n == Min(Len(units), room)
        stored == [k \in 1..(2 * n) |->
                     IF k % 2 = 1 THEN <<"b", (units[(k + 1) \div 2] \div 256) % 256>>
                     ELSE <<"b", units[k \div 2] % 256>>]
    IN IF buffer.panicked THEN buffer
       ELSE IF n < Len(units) THEN [buffer EXCEPT !.at = put(@, offset, stored), !.panicked = TRUE]
       ELSE [buffer EXCEPT !.at = put(@, offset, stored)]

\* with_game_title: the title at 0x0411 and at 0x1691
with_game_title(buffer, game_title) ==
    write_utf16_be(write_utf16_be(buffer, 1041, game_title), 5777, game_title)

with_mht_hash_overlapping(buffer, mht_hash) == write_bytes(buffer, 895, HashCells(mht_hash))

\* with_mht_hash: the 20 bytes at 0x037d
with_mht_hash(buffer, mht_hash) == write_bytes(buffer, 893, HashCells(mht_hash))

\* ConHeaderBuilder::new: the template
ConHeaderBuilder_new == [len |-> EMPTY_LIVE_LEN, at |-> NoCells, panicked |-> FALSE]

\* the n cells of the buffer from offset p on
read_cells(buffer, p, n) == [k \in 1..n |-> cell_at(buffer, p + k - 1)]

(***************************************************************************)
(* 5. Container writer: write_part, the backward chain, the header digest  *)
(***************************************************************************)
BLOCKS_PER_PART == 41412
BLOCKS_PER_SUBPART == 204
BLOCK_SIZE == 4096
SUBPARTS_PER_PART == 203
SUBPART_SIZE == BLOCK_SIZE * BLOCKS_PER_SUBPART

\* iso_file_size - root_offset of the sources converted: the data region is
\* s.len bytes; its blocks of 4096 bytes all have the same content, except
\* block s.mark (no block when s.mark = -1).
MaxParts == 3
SourceLens ==
    {16 * BLOCK_SIZE + 2048, SUBPART_SIZE + 1, BLOCKS_PER_PART * BLOCK_SIZE,
     BLOCKS_PER_PART * BLOCK_SIZE + 1,
     (MaxParts - 1) * BLOCKS_PER_PART * BLOCK_SIZE + SUBPART_SIZE}
Marks(l) ==
    {m \in {-1, 0, BLOCKS_PER_PART + 1, div_ceil(l, BLOCK_SIZE) - 1} : m < div_ceil(l, BLOCK_SIZE)}
Sources == UNION {{[len |-> l, mark |-> m] : m \in Marks(l)} : l \in SourceLens}

\* the sources of the conversions run one after the other
LongSources == {s \in Sources : s.len > (MaxParts - 1) * BLOCKS_PER_PART * BLOCK_SIZE}

\* the bytes of block b of the data region, l bytes of it
block_bytes(s, b, l) == [len |-> l, sym |-> IF b = s.mark THEN "x" ELSE "o"]

\* block_count and part_count of main
block_count(s) == div_ceil(s.len, BLOCK_SIZE)
part_count(s) == div_ceil(block_count(s), BLOCKS_PER_PART)

\* IsoReader::get_root: the reader at root_offset, position 0 of the data
\* region
get_root == 0
\* the position of the handle write_part is given for a part: every part
\* has its own handle at the start of the data region
handle_at_call(part_index) == get_root

\* A part file is a sequence of segments: the 4096 bytes of a HashList, or
\* len bytes copied from position from of the data region.
HlSeg(image) == [kind |-> "hl", image |-> image, from |-> 0, len |-> image.len]
DataSeg(from, len) == [kind |-> "data", image |-> Bytes(0, <<>>), from |-> from, len |-> len]

RECURSIVE SumLen(_, _, _)
SumLen(file, lo, hi) ==
    IF lo > hi THEN 0
    ELSE IF lo = hi THEN file[lo].len
    ELSE LET mid == (lo + hi) \div 2
         IN SumLen(file, lo, mid) + SumLen(file, mid + 1, hi)
FileSize(file) == SumLen(file, 1, Len(file))

\* write_all of a segment at position at: at the end of the file it extends
\* the file, at position 0 it replaces the HashList the file starts with
file_write(file, at, seg) ==
    IF at = FileSize(file) THEN Append(file, seg) ELSE [file EXCEPT ![1] = seg]

take_read_padded(s, at, limit) == IF s.len > at THEN limit ELSE 0

\* the number of bytes take(limit) gives from position at
take_read(s, at, limit) == Min(limit, Max(s.len - at, 0))

seek_back_missing(at, len) == at

\* data_volume.seek_relative(0 - subpart_buf.len())
seek_back(at, len) == at - len

RECURSIVE chunk_hashes(_, _, _, _, _)
\* sub_hash_list after add_block_hash of chunks lo..hi of
\* subpart_buf.chunks(BLOCK_SIZE), the len bytes read at position from
chunk_hashes(s, from, len, lo, hi) ==
    IF lo = hi
    THEN add_block_hash(HashList_new, "block",
                        block_bytes(s, from \div BLOCK_SIZE + lo, Min(BLOCK_SIZE, len - lo * BLOCK_SIZE)))
    ELSE LET mid == (lo + hi) \div 2
         IN Concat(chunk_hashes(s, from, len, lo, mid), chunk_hashes(s, from, len, mid + 1, hi))

NewPart == [pc |-> "new", dpos |-> 0, master_hash_list |-> HashList_new,
            subpart_index |-> 0, wpos |-> 0, file |-> <<>>]

AllWritten == \A i \in 1..Len(parts) : parts[i].pc = "done"

part_start_unseeked(at, part_index) == at

\* data_volume.seek_relative(part_index * BLOCKS_PER_PART * BLOCK_SIZE) from
\* position at
part_start(at, part_index) == at + part_index * BLOCKS_PER_PART * BLOCK_SIZE

\* write_part(data_volume, part_index, part_file) up to its loop
write_part_enter(part_index) ==
    /\ parts[part_index + 1].pc = "new"
    /\ LET master_hash_list == HashList_new
           master_hash_list_position == 0
       IN parts' = [parts EXCEPT ![part_index + 1] =
              [pc |-> "loop",
               dpos |-> part_start(handle_at_call(part_index), part_index),
               master_hash_list |-> master_hash_list,
               subpart_index |-> 0,
               wpos |-> master_hash_list_position + 4096,
               file |-> file_write(<<>>, master_hash_list_position, HlSeg(to_bytes(master_hash_list)))]]
    /\ UNCHANGED <<src, gpc, mht, cidx, hdr, snaps, clog, prev>>
    /\ UNCHANGED <<dvars, fvars, hvars, xvars>>

\* main's loop calls write_part for part_index, one part after the other
write_part_begin(part_index) ==
    /\ gpc = "parts"
    /\ \A j \in 1..part_index : parts[j].pc = "done"
    /\ write_part_enter(part_index)

\* one iteration of write_part's loop over the subparts
write_part_subpart(part_index) ==
    /\ parts[part_index + 1].pc = "loop"
    /\ LET p == parts[part_index + 1]
           len == take_read(src, p.dpos, SUBPART_SIZE)
           sub_hash_list == chunk_hashes(src, p.dpos, len, 0, div_ceil(len, BLOCK_SIZE) - 1)
           back == seek_back(p.dpos + len, len)
           copied == take_read(src, back, SUBPART_SIZE)
           file1 == file_write(p.file, p.wpos, HlSeg(to_bytes(sub_hash_list)))
           file2 == file_write(file1, p.wpos + 4096, DataSeg(back, copied))
       IN IF p.subpart_index >= SUBPARTS_PER_PART \/ len = 0
          THEN parts' = [parts EXCEPT ![part_index + 1].pc = "exit"]
          ELSE parts' = [parts EXCEPT ![part_index + 1] =
                 [pc |-> IF len < SUBPART_SIZE THEN "exit" ELSE "loop",
                  dpos |-> back + copied,
                  master_hash_list |-> add_block_hash(p.master_hash_list, "list", bytes(sub_hash_list)),
                  subpart_index |-> IF len < SUBPART_SIZE THEN p.subpart_index ELSE p.subpart_index + 1,
                  wpos |-> p.wpos + 4096 + copied,
                  file |-> file2]]
    /\ UNCHANGED <<src, gpc, mht, cidx, hdr, snaps, clog, prev>>
    /\ UNCHANGED <<dvars, fvars, hvars, xvars>>

\* write_part after its loop: the master HashList goes to the file start
write_part_end(part_index) ==
    /\ parts[part_index + 1].pc = "exit"
    /\ LET p == parts[part_index + 1]
           master_hash_list_position == 0
       IN parts' = [parts EXCEPT ![part_index + 1] =
              [p EXCEPT !.pc = "done",
                        !.wpos = master_hash_list_position + 4096,
                        !.file = file_write(p.file, master_hash_list_position,
                                            HlSeg(to_bytes(p.master_hash_list)))]]
    /\ UNCHANGED <<src, gpc, mht, cidx, hdr, snaps, clog, prev>>
    /\ UNCHANGED <<dvars, fvars, hvars, xvars>>

\* read_part_mht
read_part_mht(ps, part_index) == read(ps[part_index + 1].file[1].image)

write_part_mht_skip(ps, part_index, list) == ps

write_part_mht_truncating(ps, part_index, list) ==
    [ps EXCEPT ![part_index + 1].file = <<HlSeg(to_bytes(list))>>]

\* write_part_mht
write_part_mht(ps, part_index, list) ==
    [ps EXCEPT ![part_index + 1].file = file_write(@, 0, HlSeg(to_bytes(list)))]

\* the master HashLists on disk
Masters(ps) == [i \in 1..Len(ps) |-> ps[i].file[1].image]

\* the backward pass up to its loop: mht = read_part_mht(part_count - 1)
chain_pass_begin ==
    /\ mht' = read_part_mht(parts, part_count(src) - 1)
    /\ cidx' = part_count(src) - 1
    /\ gpc' = "chain"
    /\ snaps' = Append(snaps, Masters(parts))
    /\ clog' = <<>>
    /\ UNCHANGED <<src, parts, hdr, prev>>
    /\ UNCHANGED <<dvars, fvars, hvars, xvars>>

chain_begin ==
    /\ gpc = "parts"
    /\ AllWritten
    /\ chain_pass_begin

chain_next_stale(prev_mht, last) == last

\* mht = prev_mht
chain_next(prev_mht, last) == prev_mht

\* one iteration of for prev_part_index in (0..part_count - 1).rev()
chain_step ==
    /\ gpc = "chain"
    /\ cidx > 0
    /\ LET prev_part_index == cidx - 1
           prev_mht == add_hash(read_part_mht(parts, prev_part_index), digest(mht))
       IN /\ parts' = write_part_mht(parts, prev_part_index, prev_mht)
          /\ mht' = chain_next(prev_mht, mht)
          /\ cidx' = prev_part_index
          /\ clog' = Append(clog, prev_part_index)
    /\ UNCHANGED <<src, gpc, hdr, snaps, prev>>
    /\ UNCHANGED <<dvars, fvars, hvars, xvars>>

\* a u64 below 2^32 as its eight bytes, most significant first
u64_bytes(n) == <<0, 0, 0, 0>> \o be_bytes(n)

parts_total_size_all_full(ps, count) == count * BLOCK_SIZE * 41616

\* main's argument to with_data_parts_info: last_part_size, the length of
\* the last part file, and 0xa290 blocks for every other part
parts_total_size(ps, count) ==
    LET last_part_size == FileSize(ps[(count - 1) + 1].file)
    IN last_part_size + (count - 1) * BLOCK_SIZE * 41616

\* main after the pass: the header fields computed from the conversion,
\* with_block_counts, with_data_parts_info and with_mht_hash(&mht.digest())
\* (the execution info and the content type do not depend on it)
write_con_header ==
    /\ gpc = "chain"
    /\ cidx = 0
    /\ hdr' = with_mht_hash(
                 with_data_parts_info(
                     with_block_counts(ConHeaderBuilder_new, block_count(src), 0),
                     part_count(src), u64_bytes(parts_total_size(parts, part_count(src)))),
                 digest(mht))
    /\ gpc' = "done"
    /\ UNCHANGED <<src, parts, mht, cidx, snaps, clog, prev>>
    /\ UNCHANGED <<dvars, fvars, hvars, xvars>>

MaxPasses == 2
\* the backward pass run once more over the part files of a conversion
chain_again ==
    /\ gpc = "done"
    /\ Len(snaps) < MaxPasses
    /\ chain_pass_begin

\* a second conversion, of another source, after a first one
next_conversion ==
    /\ gpc = "done"
    /\ prev = <<>>
    /\ prev' = <<[src |-> src, mht_hash |-> read_cells(hdr, 893, HASH_SIZE)]>>
    /\ \E s \in Sources :
          /\ src' = s
          /\ parts' = [i \in 1..part_count(s) |-> NewPart]
    /\ gpc' = "parts"
    /\ mht' = HashList_new
    /\ cidx' = 0
    /\ hdr' = ConHeaderBuilder_new
    /\ snaps' = <<>>
    /\ clog' = <<>>
    /\ UNCHANGED <<dvars, fvars, hvars, xvars>>

GodIdle ==
    /\ src = [len |-> 0, mark |-> -1]
    /\ parts = <<>>
    /\ gpc = "idle"
    /\ mht = HashList_new
    /\ cidx = 0
    /\ hdr = ConHeaderBuilder_new
    /\ snaps = <<>>
    /\ clog = <<>>
    /\ prev = <<>>

GodStart(S) ==
    /\ src \in S
    /\ parts = [i \in 1..part_count(src) |-> NewPart]
    /\ gpc = "parts"
    /\ mht = HashList_new
    /\ cidx = 0
    /\ hdr = ConHeaderBuilder_new
    /\ snaps = <<>>
    /\ clog = <<>>
    /\ prev = <<>>

WritePartNext ==
    \E part_index \in 0..(Len(parts) - 1) :
        \/ write_part_begin(part_index)
        \/ write_part_subpart(part_index)
        \/ write_part_end(part_index)

\* ---- the worker pool ----
\* The part files of the run in index order are kept (pref) and the parts
\* are written again by the pool.
pool_start ==
    /\ gpc = "parts"
    /\ AllWritten
    /\ pref' = [i \in 1..Len(parts) |-> parts[i].file]
    /\ parts' = [i \in 1..Len(parts) |-> NewPart]
    /\ gpc' = "pool"
    /\ UNCHANGED <<src, mht, cidx, hdr, snaps, clog, prev>>
    /\ UNCHANGED <<dvars, fvars, hvars, evars, bvars>>

\* a worker calls write_part for a part index no worker has taken, with its
\* own handle and the part's own file
pool_write_part(part_index) ==
    /\ gpc = "pool"
    /\ write_part_enter(part_index)

PoolIdle == pref = <<>>

\* data regions of two parts, the second of one and of three subparts
ParSources ==
    {[len |-> l, mark |-> k] :
        l \in {BLOCKS_PER_PART * BLOCK_SIZE + 1, BLOCKS_PER_PART * BLOCK_SIZE + 2 * SUBPART_SIZE + 5},
        k \in {0, BLOCKS_PER_PART}}

PoolNext == \E part_index \in 0..(Len(parts) - 1) : pool_write_part(part_index)

GodParNext == WritePartNext \/ pool_start \/ PoolNext

\* ---- I/O failures ----
\* part_file is a BufWriter of 8 MiB (open_file_for_buffered_writing).
\* A write or a flush inside write_part fails: write_part returns the error
\* and main returns it ("error writing part file").
write_part_err(part_index) ==
    /\ gpc = "parts"
    /\ parts[part_index + 1].pc \in {"loop", "exit"}
    /\ parts' = [parts EXCEPT ![part_index + 1].pc = "failed"]
    /\ gpc' = "failed"
    /\ UNCHANGED <<src, mht, cidx, hdr, snaps, clog, prev>>
    /\ UNCHANGED <<dvars, fvars, hvars, xvars>>

\* write_part after its loop when the device fails behind it: the seek has
\* flushed everything written before it, the 4096 bytes of the master
\* HashList stay in the BufWriter, write_part returns Ok, and main's loop
\* drops part_file: BufWriter's drop flushes and ignores the failure.
write_part_end_drop_fails(part_index) ==
    /\ gpc = "parts"
    /\ parts[part_index + 1].pc = "exit"
    /\ LET master_hash_list_position == 0
       IN parts' = [parts EXCEPT ![part_index + 1].pc = "done",
                                 ![part_index + 1].wpos = master_hash_list_position + 4096]
    /\ UNCHANGED <<src, gpc, mht, cidx, hdr, snaps, clog, prev>>
    /\ UNCHANGED <<dvars, fvars, hvars, xvars>>

\* the data regions converted with I/O failures
IoSources == {s \in Sources : s.mark = -1}

IoFailNext ==
    \E part_index \in 0..(Len(parts) - 1) :
        \/ write_part_err(part_index)
        \/ write_part_end_drop_fails(part_index)

GodIoNext == WritePartNext \/ IoFailNext \/ chain_begin \/ chain_step \/ write_con_header

GodNext == WritePartNext \/ chain_begin \/ chain_step \/ write_con_header \/ chain_again
GodPairNext == WritePartNext \/ chain_begin \/ chain_step \/ write_con_header \/ next_conversion

(***************************************************************************)
(* 6. Executable selection and the two header parsers                      *)
(***************************************************************************)
\* A byte stream is its length and the bytes that are not zero, [len, at].
Stream(len, at) == [len |-> len, at |-> at]
byte_at(s, p) == IF p \in DOMAIN s.at THEN s.at[p] ELSE 0
\* read_exact of n bytes at position p succeeds
can_read(s, p, n) == p + n <= s.len

read_u32_LE(s, p) ==
    byte_at(s, p) + 256 * (byte_at(s, p + 1) + 256 * (byte_at(s, p + 2) + 256 * byte_at(s, p + 3)))

\* reader.read_u32::<BE>()
read_u32_BE(s, p) ==
    byte_at(s, p + 3) + 256 * (byte_at(s, p + 2) + 256 * (byte_at(s, p + 1) + 256 * byte_at(s, p)))

NoBytes == [q \in {} |-> 0]

\* TitleExecutionInfo
TitleExecutionInfo(media_id, version, base_version, title_id, platform, executable_type, disc_number, disc_count) ==
    [media_id |-> media_id, version |-> version, base_version |-> base_version,
     title_id |-> title_id, platform |-> platform, executable_type |-> executable_type,
     disc_number |-> disc_number, disc_count |-> disc_count]

\* TitleExecutionInfo::from_xex at position p: 20 bytes, big-endian
from_xex(s, p) ==
    TitleExecutionInfo(read_u32_BE(s, p), read_u32_BE(s, p + 4), read_u32_BE(s, p + 8),
                       read_u32_BE(s, p + 12), byte_at(s, p + 16), byte_at(s, p + 17),
                       byte_at(s, p + 18), byte_at(s, p + 19))

from_xbe_big_endian(s, p) ==
    TitleExecutionInfo(0, read_u32_BE(s, p + 8 + 4 + 164), 0, read_u32_BE(s, p + 8), 0, 0, 1, 1)

\* TitleExecutionInfo::from_xbe at position p: seek 8, u32 LE, seek 164, u32 LE
from_xbe(s, p) ==
    TitleExecutionInfo(0, read_u32_LE(s, p + 8 + 4 + 164), 0, read_u32_LE(s, p + 8), 0, 0, 1, 1)

XEX2 == <<88, 69, 88, 50>>
XBEH == <<88, 66, 69, 72>>
ExecutionId == 262150
ResourceInfo == 767
\* the field ids of the tables: the identity id, another Key, and an id no Key has
FieldIds == {ExecutionId, ResourceInfo, 305419896}

\* file names and lookup paths, as characters
default_xex == <<"d", "e", "f", "a", "u", "l", "t", ".", "x", "e", "x">>
default_xbe == <<"d", "e", "f", "a", "u", "l", "t", ".", "x", "b", "e">>
DEFAULT_XEX == <<"D", "E", "F", "A", "U", "L", "T", ".", "X", "E", "X">>

\* ---- the images TitleInfo::from_image is given ----
\* The root directory holds some of default.xex (sector 1), default.xbe
\* (sector 8) and DEFAULT.XEX (sector 1).
XexSector == 1
XbeSector == 8
RootTables ==
    {[sector |-> 0, size |-> SECTOR_SIZE, entries |-> e] : e \in {
        <<>>,
        <<Entry(File(default_xex, XexSector), <<>>)>>,
        <<Entry(File(default_xbe, XbeSector), <<>>)>>,
        <<Entry(File(default_xex, XexSector), <<>>), Entry(File(default_xbe, XbeSector), <<>>)>>,
        <<Entry(File(default_xbe, XbeSector), <<>>), Entry(File(default_xex, XexSector), <<>>)>>,
        <<Entry(File(DEFAULT_XEX, XexSector), <<>>)>>,
        <<Entry(File(DEFAULT_XEX, XexSector), <<>>), Entry(File(default_xbe, XbeSector), <<>>)>>}}

\* A modern header: magic, field table of <<key, value>> pairs, and two
\* identity records at header offsets 512 and 768; cut = 0, or the length
\* the stream is cut to (from the header start).
MaxFields == 3
RecordA == <<1, 2, 3, 4, 5, 6, 7, 8, 9, 10, 11, 12, 13, 14, 15, 16, 17, 18, 19, 20>>
RecordB == <<21, 22, 23, 24, 25, 26, 27, 28, 29, 30, 31, 32, 33, 34, 35, 36, 37, 38, 39, 40>>
XexFieldTables ==
    UNION {[1..n -> FieldIds \X {512, 768}] : n \in 0..MaxFields}
FixedTable == <<<<ResourceInfo, 768>>, <<ExecutionId, 512>>>>
XexFiles ==
    {[magic |-> XEX2, table |-> t, cut |-> 0] : t \in XexFieldTables}
    \cup {[magic |-> XBEH, table |-> FixedTable, cut |-> 0]}
    \cup {[magic |-> XEX2, table |-> FixedTable, cut |-> c] : c \in {2, 20, 36, 520}}
    \cup {[magic |-> XEX2, table |-> <<<<ExecutionId, 40>>, <<ExecutionId, 24>>>>, cut |-> 0]}

RECURSIVE put_table(_, _, _, _)
put_table(at, h, t, i) ==
    IF i > Len(t) THEN at
    ELSE put_table(put(at, h + 24 + 8 * (i - 1), be_bytes(t[i][1]) \o be_bytes(t[i][2])), h, t, i + 1)
XexBytes(at, h, f) ==
    put_table(put(put(put(put(put(at, h + 512, RecordA), h + 768, RecordB),
                          h, f.magic), h + 4, be_bytes(1)), h + 20, be_bytes(Len(f.table))),
              h, f.table, 1)

\* A legacy header: magic, base address at 0x104, certificate address at
\* 0x118, and the title id and version of its certificate; huge says that
\* the stream goes on for more than 2^32 bytes (of zeros) after the header.
XbeSample == [base |-> 65536, title_id |-> 1128353815, version |-> 16909060]
XbeFiles ==
    {[magic |-> m, base |-> XbeSample.base, cert |-> c, cut |-> k, huge |-> g] :
        m \in {XBEH, XEX2}, c \in {XbeSample.base + 376, XbeSample.base + 1024, XbeSample.base, XbeSample.base - 4},
        k \in {0, 270, 1100}, g \in BOOLEAN}
XbeBytes(at, h, f) ==
    LET delta == IF f.cert >= f.base THEN f.cert - f.base ELSE 376
    IN put(put(put(put(put(at, h + delta + 8, le_bytes(XbeSample.title_id)),
                           h + delta + 176, le_bytes(XbeSample.version)),
                       h + 260, le_bytes(f.base)), h + 280, le_bytes(f.cert)), h, f.magic)

DefaultXex == [magic |-> XEX2, table |-> FixedTable, cut |-> 0]
DefaultXbe == [magic |-> XBEH, base |-> XbeSample.base, cert |-> XbeSample.base + 376, cut |-> 0, huge |-> FALSE]
HasName(tbl, name) == \E i \in 1..Len(tbl.entries) : tbl.entries[i].rec.name = name

\* the image: the root directory, the two files and the stream
ExeImage(tbl, x, b) ==
    [table |-> tbl, xex |-> x, xbe |-> b, huge |-> b.huge,
     stream |-> Stream(IF x.cut > 0 THEN XexSector * SECTOR_SIZE + x.cut
                       ELSE IF b.cut > 0 THEN XbeSector * SECTOR_SIZE + b.cut
                       ELSE 16 * SECTOR_SIZE,
                      XbeBytes(XexBytes(NoBytes, XexSector * SECTOR_SIZE, x), XbeSector * SECTOR_SIZE, b))]
ExeImages ==
    {ExeImage(t, x, DefaultXbe) : t \in {r \in RootTables : HasName(r, default_xex)}, x \in XexFiles}
    \cup {ExeImage(t, DefaultXex, b) : t \in {r \in RootTables : ~HasName(r, default_xex)}, b \in XbeFiles}

GamesOnDemand == 28672
XboxOriginal == 20480

ExePending == [kind |-> "pending", msg |-> "", content_type |-> 0, info |-> <<>>]
ExeOk(content_type, info) == [kind |-> "Ok", msg |-> "", content_type |-> content_type, info |-> <<info>>]
ExeErr(msg) == [kind |-> "Err", msg |-> msg, content_type |-> 0, info |-> <<>>]
ExePanic == [kind |-> "Panic", msg |-> "attempt to subtract with overflow", content_type |-> 0, info |-> <<>>]
NoLocals == [content_type |-> 0, header_offset |-> 0, field_count |-> 0, i |-> 0,
             execution_info |-> <<>>, parsers |-> <<>>]

select_xbe_first(tbl) ==
    LET b == get_entry(tbl, WindowsPath_from(<<"\\">> \o default_xbe))
        x == get_entry(tbl, WindowsPath_from(<<"\\">> \o default_xex))
    IN IF b # <<>> THEN <<XboxOriginal, b[1]>>
       ELSE IF x # <<>> THEN <<GamesOnDemand, x[1]>> ELSE <<>>

\* the first match of TitleInfo::from_image: <<content_type, position of the
\* executable>>, or <<>> when neither entry is found
select_executable(tbl) ==
    LET x == get_entry(tbl, WindowsPath_from(<<"\\">> \o default_xex))
        b == get_entry(tbl, WindowsPath_from(<<"\\">> \o default_xbe))
    IN IF x # <<>> THEN <<GamesOnDemand, x[1]>>
       ELSE IF b # <<>> THEN <<XboxOriginal, b[1]>> ELSE <<>>

\* TitleInfo::from_image up to the call of a parser
TitleInfo_from_image ==
    /\ epc = "select"
    /\ LET e == select_executable(eimg.table)
       IN IF e = <<>>
          THEN /\ eres' = ExeErr("no executable found in this image")
               /\ epc' = "done"
               /\ UNCHANGED <<epos, eloc>>
          ELSE /\ eloc' = [eloc EXCEPT !.content_type = e[1]]
               /\ epos' = e[2]
               /\ epc' = IF e[1] = GamesOnDemand THEN "xex" ELSE "xbe"
               /\ UNCHANGED eres
    /\ UNCHANGED eimg
    /\ UNCHANGED <<dvars, fvars, gvars, hvars, bvars, pvars>>

\* XexHeader::read: check_magic_bytes, then read_checked up to its loop
XexHeader_read ==
    /\ epc = "xex"
    /\ LET s == eimg.stream
           header_offset == epos
       IN IF ~can_read(s, epos, 4)
             \/ <<byte_at(s, epos), byte_at(s, epos + 1), byte_at(s, epos + 2), byte_at(s, epos + 3)>> # XEX2
             \/ ~can_read(s, header_offset, 24)
          THEN /\ eres' = ExeErr("error reading default.xex")
               /\ epc' = "done"
               /\ eloc' = [eloc EXCEPT !.parsers = Append(@, "xex")]
               /\ UNCHANGED epos
          ELSE /\ eloc' = [eloc EXCEPT !.header_offset = header_offset,
                                       !.field_count = read_u32_BE(s, header_offset + 20),
                                       !.i = 0,
                                       !.parsers = Append(@, "xex")]
               /\ epos' = header_offset + 24
               /\ epc' = "xex_fields"
               /\ UNCHANGED eres
    /\ UNCHANGED eimg
    /\ UNCHANGED <<dvars, fvars, gvars, hvars, bvars, pvars>>

restore_cursor_missing(offset, after) == after

\* reader.seek(SeekFrom::Start(offset)) after the identity record is read
restore_cursor(offset, after) == offset

\* one iteration of for _ in 0..field_count
XexHeader_field ==
    /\ epc = "xex_fields"
    /\ eloc.i < eloc.field_count
    /\ LET s == eimg.stream
           key == read_u32_BE(s, epos)
           value == read_u32_BE(s, epos + 4)
           offset == epos + 8
           target == eloc.header_offset + value
       IN IF ~can_read(s, epos, 8) \/ (key = ExecutionId /\ ~can_read(s, target, 20))
          THEN /\ eres' = ExeErr("error reading default.xex")
               /\ epc' = "done"
               /\ UNCHANGED <<epos, eloc>>
          ELSE /\ IF key = ExecutionId
                  THEN /\ eloc' = [eloc EXCEPT !.i = @ + 1, !.execution_info = <<from_xex(s, target)>>]
                       /\ epos' = restore_cursor(offset, target + 20)
                  ELSE /\ eloc' = [eloc EXCEPT !.i = @ + 1]
                       /\ epos' = offset
               /\ UNCHANGED <<epc, eres>>
    /\ UNCHANGED eimg
    /\ UNCHANGED <<dvars, fvars, gvars, hvars, bvars, pvars>>

\* read_checked returns; from_image takes fields.execution_info
XexHeader_return ==
    /\ epc = "xex_fields"
    /\ eloc.i >= eloc.field_count
    /\ eres' = IF eloc.execution_info = <<>>
                 THEN ExeErr("no execution info in default.xex header")
                 ELSE ExeOk(eloc.content_type, eloc.execution_info[1])
    /\ epc' = "done"
    /\ UNCHANGED <<eimg, epos, eloc>>
    /\ UNCHANGED <<dvars, fvars, gvars, hvars, bvars, pvars>>

\* XbeHeader::read, and from_image taking fields.execution_info.  With
\* dw_certificate_addr < dw_base_addr the u32 subtraction panics in a build
\* with overflow checks and wraps modulo 2^32 in one without: the seek then
\* goes more than 2^32 - dw_base_addr bytes past the header, where only a
\* huge stream has bytes (zeros).
XbeHeader_read ==
    /\ epc = "xbe"
    /\ LET s == eimg.stream
           h == epos
           dw_base_addr == read_u32_LE(s, h + 4 + 256)
           dw_certificate_addr == read_u32_LE(s, h + 4 + 256 + 4 + 16)
           offset == (h + 4 + 256 + 4 + 16 + 4) - 284
           cert == offset + (dw_certificate_addr - dw_base_addr)
       IN /\ eloc' = [eloc EXCEPT !.parsers = Append(@, "xbe")]
          /\ IF ~can_read(s, h, 4)
                \/ <<byte_at(s, h), byte_at(s, h + 1), byte_at(s, h + 2), byte_at(s, h + 3)>> # XBEH
                \/ ~can_read(s, h + 260, 4) \/ ~can_read(s, h + 280, 4)
             THEN eres' = ExeErr("error reading default.xbe") /\ UNCHANGED epos
             ELSE IF dw_certificate_addr < dw_base_addr
             THEN \E checks \in BOOLEAN :
                     /\ eres' = IF checks THEN ExePanic
                                ELSE IF eimg.huge
                                  THEN ExeOk(eloc.content_type, TitleExecutionInfo(0, 0, 0, 0, 0, 0, 1, 1))
                                  ELSE ExeErr("error reading default.xbe")
                     /\ UNCHANGED epos
             ELSE IF ~can_read(s, cert + 8, 4) \/ ~can_read(s, cert + 176, 4)
             THEN eres' = ExeErr("error reading default.xbe") /\ UNCHANGED epos
             ELSE /\ eres' = ExeOk(eloc.content_type, from_xbe(s, cert))
                  /\ epos' = cert + 180
    /\ epc' = "done"
    /\ UNCHANGED eimg
    /\ UNCHANGED <<dvars, fvars, gvars, hvars, bvars, pvars>>

ExeIdle ==
    /\ eimg = [table |-> [sector |-> 0, size |-> 0, entries |-> <<>>], xex |-> DefaultXex,
               xbe |-> DefaultXbe, huge |-> FALSE, stream |-> Stream(0, NoBytes)]
    /\ epc = "idle"
    /\ epos = 0
    /\ eloc = NoLocals
    /\ eres = ExePending

ExeInit ==
    /\ eimg \in ExeImages
    /\ epc = "select"
    /\ epos = 0
    /\ eloc = NoLocals
    /\ eres = ExePending

ExeNext == TitleInfo_from_image \/ XexHeader_read \/ XexHeader_field \/ XexHeader_return \/ XbeHeader_read

(***************************************************************************)
(* 7. Two ConHeaderBuilders given the same field inputs                    *)
(***************************************************************************)
Setters == {"with_execution_info", "with_block_counts", "with_data_parts_info",
            "with_content_type", "with_mht_hash", "with_game_icon"}
\* the setters main calls on its builder
MainSetters == Setters \ {"with_game_icon"}
Png(n) == ByteCells([k \in 1..n |-> (k * 7) % 256])

\* The field inputs of a builder: the setters called (calls) and their
\* arguments.
HeaderPlan(c, ct, ei, ba, bna, pc, pts, mh, png) ==
    [calls |-> c, content_type |-> ct, exe_info |-> ei,
     blocks_allocated |-> ba, blocks_not_allocated |-> bna,
     part_count |-> pc, parts_total_size |-> pts,
     mht_hash |-> mh, png_bytes |-> png]
ExeInfoA == TitleExecutionInfo(16909060, 5, 6, 1096157207, 2, 1, 1, 2)
ExeInfoB == TitleExecutionInfo(0, 16909060, 0, 1128353815, 0, 0, 1, 1)
HeaderPlans == {
    HeaderPlan(Setters, GamesOnDemand, ExeInfoA, 2075000, 0, 50,
               <<0, 0, 0, 1, 250, 163, 112, 0>>, sha1("list", 1), Png(3)),
    HeaderPlan({"with_game_icon", "with_block_counts", "with_mht_hash"}, GamesOnDemand, ExeInfoA,
               41412, 0, 1, <<0, 0, 0, 0, 10, 41, 0, 0>>, sha1("list", 1), Png(1024)),
    HeaderPlan(MainSetters, XboxOriginal, ExeInfoB, 16777215, 513, 2,
               <<0, 0, 0, 0, 0, 0, 0, 255>>, sha1("list", 2), <<>>),
    HeaderPlan({"with_block_counts", "with_mht_hash", "with_content_type"}, GamesOnDemand, ExeInfoA,
               16777216, 0, 1, <<0, 0, 0, 0, 0, 0, 0, 0>>, sha1("list", 1), <<>>),
    HeaderPlan({"with_game_icon", "with_content_type", "with_execution_info"}, GamesOnDemand, ExeInfoA,
               1, 0, 1, <<0, 0, 0, 0, 0, 0, 0, 0>>, sha1("list", 1), Png(1025)),
    HeaderPlan({"with_data_parts_info", "with_block_counts"}, GamesOnDemand, ExeInfoA,
               300, 7, 258, <<0, 0, 1, 0, 0, 0, 5, 0>>, sha1("list", 1), <<>>),
    HeaderPlan({"with_game_icon"}, GamesOnDemand, ExeInfoA,
               1, 0, 1, <<0, 0, 0, 0, 0, 0, 0, 0>>, sha1("list", 1), <<>>),
    HeaderPlan({}, GamesOnDemand, ExeInfoA,
               1, 0, 1, <<0, 0, 0, 0, 0, 0, 0, 0>>, sha1("list", 1), <<>>)}

\* the call of setter n with the plan's arguments
call(n, buffer, plan) ==
    CASE n = "with_execution_info" -> with_execution_info(buffer, plan.exe_info)
      [] n = "with_block_counts" -> with_block_counts(buffer, plan.blocks_allocated, plan.blocks_not_allocated)
      [] n = "with_data_parts_info" -> with_data_parts_info(buffer, plan.part_count, plan.parts_total_size)
      [] n = "with_content_type" -> with_content_type(buffer, plan.content_type)
      [] n = "with_mht_hash" -> with_mht_hash(buffer, plan.mht_hash)
      [] n = "with_game_icon" -> with_game_icon(buffer, plan.png_bytes)
      [] n = "with_game_title" -> with_game_title(buffer, plan.game_title)

NewBuilder == [state |-> "building", buffer |-> ConHeaderBuilder_new, before |-> ConHeaderBuilder_new,
               calls |-> {}, last |-> ""]

\* builder b calls a setter it has not called yet; the second builder is
\* made when the first has returned its blob
ConHeaderBuilder_with(b, n) ==
    /\ bld[b].state = "building"
    /\ b = 2 => bld[1].state = "final"
    /\ n \in bplan.calls \ bld[b].calls
    /\ LET r == call(n, bld[b].buffer, bplan)
       IN bld' = [bld EXCEPT ![b] = [state |-> IF r.panicked THEN "panicked" ELSE "building",
                                     buffer |-> r, before |-> bld[b].buffer,
                                     calls |-> bld[b].calls \cup {n}, last |-> n]]
    /\ UNCHANGED bplan
    /\ UNCHANGED <<dvars, fvars, gvars, hvars, evars, pvars>>

\* builder b has called every setter of the plan and finalizes
ConHeaderBuilder_finalize(b) ==
    /\ bld[b].state = "building"
    /\ b = 2 => bld[1].state = "final"
    /\ bld[b].calls = bplan.calls
    /\ bld' = [bld EXCEPT ![b] = [@ EXCEPT !.state = "final",
                                            !.buffer = finalize_with_fake_signature(bld[b].buffer),
                                            !.before = bld[b].buffer]]
    /\ UNCHANGED bplan
    /\ UNCHANGED <<dvars, fvars, gvars, hvars, evars, pvars>>

HeaderIdle ==
    /\ bplan = HeaderPlan({}, 0, ExeInfoA, 0, 0, 0, <<0, 0, 0, 0, 0, 0, 0, 0>>, Zero20, <<>>)
    /\ bld = <<>>

HeaderInit ==
    /\ bplan \in HeaderPlans
    /\ bld = <<NewBuilder, NewBuilder>>

HeaderNext ==
    \E b \in 1..2 :
        \/ \E n \in Setters : ConHeaderBuilder_with(b, n)
        \/ ConHeaderBuilder_finalize(b)

\* ---- builders that are given a game title ----
\* A title of n code points: Latin letters, with a kana at 2 and a code
\* point outside the basic plane at 3.
Title(n) ==
    [k \in 1..n |-> IF k = 2 THEN 12354 ELSE IF k = 3 THEN 128512 ELSE 65 + (k % 26)]
TitleLens == {0, 1, 3, 40, 62, 63, 64, 70, 19639}
TitleSetters == {"with_game_title", "with_game_icon"}
\* the field inputs of a builder with a title
TitlePlan(c, title, png) ==
    [calls |-> c, content_type |-> GamesOnDemand, exe_info |-> ExeInfoA,
     blocks_allocated |-> 1, blocks_not_allocated |-> 0,
     part_count |-> 1, parts_total_size |-> <<0, 0, 0, 0, 0, 0, 0, 0>>,
     mht_hash |-> sha1("list", 1), png_bytes |-> png, game_title |-> title]
TitlePlans ==
    {TitlePlan(c, Title(n), Png(3)) : c \in {{"with_game_title"}, TitleSetters}, n \in TitleLens}

TitleInit ==
    /\ bplan \in TitlePlans
    /\ bld = <<NewBuilder, NewBuilder>>

TitleNext ==
    \E b \in 1..2 :
        \/ \E n \in TitleSetters : ConHeaderBuilder_with(b, n)
        \/ ConHeaderBuilder_finalize(b)

(***************************************************************************)
(* Specifications                                                          *)
(***************************************************************************)
\* the subsystems after the writer, idle
LaterIdle == ExeIdle /\ HeaderIdle /\ PoolIdle

InitDetect == DetectInit /\ DirIdle /\ GodIdle /\ HashListIdle /\ LaterIdle
SpecDetect == InitDetect /\ [][DetectNext]_vars

InitDetectAll == DetectAllInit /\ DirIdle /\ GodIdle /\ HashListIdle /\ LaterIdle
SpecDetectAll == InitDetectAll /\ [][DetectAllNext]_vars

InitDir == DirInit /\ DetectIdle /\ GodIdle /\ HashListIdle /\ LaterIdle
SpecDir == InitDir /\ [][DirNext]_vars

InitTree == DetectIdle /\ TreeInit /\ GodIdle /\ HashListIdle /\ LaterIdle
SpecTree == InitTree /\ [][TreeNext]_vars
\* every reader that can take a step does
SpecTreeFair == InitTree /\ [][TreeNext]_vars /\ WF_vars(TreeNext)

InitHashList == HashListInit /\ DetectIdle /\ DirIdle /\ GodIdle /\ LaterIdle
SpecHashList == InitHashList /\ [][HashListNext]_vars

InitGod == GodStart(Sources) /\ DetectIdle /\ DirIdle /\ HashListIdle /\ LaterIdle
SpecGod == InitGod /\ [][GodNext]_vars

InitGodPair == GodStart(LongSources) /\ DetectIdle /\ DirIdle /\ HashListIdle /\ LaterIdle
SpecGodPair == InitGodPair /\ [][GodPairNext]_vars

InitGodIo == GodStart(IoSources) /\ DetectIdle /\ DirIdle /\ HashListIdle /\ LaterIdle
SpecGodIo == InitGodIo /\ [][GodIoNext]_vars

InitGodPar == GodStart(ParSources) /\ DetectIdle /\ DirIdle /\ HashListIdle /\ LaterIdle
SpecGodPar == InitGodPar /\ [][GodParNext]_vars

InitExe == ExeInit /\ DetectIdle /\ DirIdle /\ GodIdle /\ HashListIdle /\ HeaderIdle /\ PoolIdle
SpecExe == InitExe /\ [][ExeNext]_vars

InitTitle == DetectIdle /\ DirIdle /\ GodIdle /\ HashListIdle /\ ExeIdle /\ TitleInit /\ PoolIdle
SpecTitle == InitTitle /\ [][TitleNext]_vars

InitHeader == HeaderInit /\ DetectIdle /\ DirIdle /\ GodIdle /\ HashListIdle /\ ExeIdle /\ PoolIdle
SpecHeader == InitHeader /\ [][HeaderNext]_vars

(***************************************************************************)
(* Claims                                                                  *)
(***************************************************************************)
\* ---- C1 ----------------------------------------------------------------
\* The priority order each routine is claimed to probe in, written out.
C1_Priority(r) ==
    IF r = "IsoType_read" THEN <<"Xsf", "Xgd2", "Xgd1", "Xgd3">>
    ELSE <<"Xgd3", "Xgd2", "Xgd1", "Xsf">>
\* the stream holds the signature bytes at candidate t's position
C1_SigAt(t) == SigEnd(t) <= dStream.len /\ t \in dStream.sig
\* t is the first candidate, in the routine's order, whose signature matches
C1_FirstMatch(t) ==
    \E i \in 1..4 :
        /\ C1_Priority(dRoutine)[i] = t
        /\ C1_SigAt(t)
        /\ \A j \in 1..(i - 1) : ~C1_SigAt(C1_Priority(dRoutine)[j])
C1_NeverNonMatching ==
    \A t \in IsoTypes : dResult = <<"Ok", t>> => C1_FirstMatch(t)

C2_IsEnd(r) == r.left = 65535 \/ r.right = 65535
\* the records of one sector in front of its first end mark (or padding)
C2_Live(recs) ==
    LET ends == {k \in 1..Len(recs) : C2_IsEnd(recs[k])}
        stop == IF ends = {} THEN Len(recs) + 1
                ELSE CHOOSE k \in ends : \A m \in ends : k <= m
    IN SubSeq(recs, 1, stop - 1)
RECURSIVE C2_Expected(_, _, _)
\* the entries of the n sectors from sector s on, in declaration order
C2_Expected(im, s, n) ==
    IF n = 0 THEN <<>>
    ELSE C2_Live(im.secs[s + 1]) \o C2_Expected(im, s + 1, n - 1)
C2_Enumerated ==
    IF rdr = "DirectoryTable"
      THEN [i \in 1..Len(res.val.entries) |-> res.val.entries[i].rec]
      ELSE res.val

\* C2: enumerating a directory whose extent spans more than one sector
\* ends without an error and yields every entry of every sector of the
\* extent exactly once, in declaration order, resuming at the next sector
\* after an end mark.
C2_EverySectorEnumerated ==
    (img.root.size > SECTOR_SIZE /\ res.kind # "pending") =>
        /\ res.kind = "Ok"
        /\ C2_Enumerated = C2_Expected(img, img.root.sector, div_ceil(img.root.size, SECTOR_SIZE))

\* ---- C3 ----------------------------------------------------------------
RECURSIVE C3_Resolve(_, _, _, _)
\* the entry a path names when each component is compared up to ASCII case
C3_Resolve(components, i, entry, dir) ==
    IF i > Len(components) THEN entry
    ELSE LET e == IF dir = <<>> THEN <<>>
                  ELSE find_ignore_case(dir[1].entries, 1, components[i])
             d == IF e = <<>> THEN <<>> ELSE e[1].subdirectory
         IN C3_Resolve(components, i + 1, e, d)
C3_Position(tbl, s) ==
    LET entry == C3_Resolve(WindowsPath_from(s), 1, <<>>, <<tbl>>)
    IN IF entry = <<>> THEN <<>> ELSE <<entry[1].rec.sector * SECTOR_SIZE>>

\* C3: get_entry resolves every path to the entry whose names equal the
\* path's components up to ASCII case, so two paths that differ only in
\* letter case resolve to the same entry.
C3_CaseInsensitiveLookup ==
    /\ \A l \in lookups : l[2] = C3_Position(res.val, l[1])
    /\ \A l1, l2 \in lookups :
          ToLower(l1[1]) = ToLower(l2[1]) => l1[2] = l2[2]

\* ---------------------------------------------------------------------------
\* Helpers of the writer's claims: the entries of a run-length encoded list,
\* the data segments of a part file, the end of a backward pass.
RECURSIVE Nth(_, _, _)
\* entry k (from 1) of the runs from run i on
Nth(runs, i, k) ==
    IF k <= runs[i].n THEN runs[i].h ELSE Nth(runs, i + 1, k - runs[i].n)
EntryAt(runs, k) == Nth(runs, 1, k)
IsData(seg) == seg.kind = "data"
DataOf(file) == SelectSeq(file, IsData)
RECURSIVE DataUpTo(_)
\* the data segments of the part files 1..i, in part and subpart order
DataUpTo(i) == IF i = 0 THEN <<>> ELSE DataUpTo(i - 1) \o DataOf(parts[i].file)
WrittenOnly == gpc = "parts" /\ AllWritten
PassDone(k) == Len(snaps) = k /\ ((gpc = "chain" /\ cidx = 0) \/ gpc = "done")

\* C4: a finished write_part whose handle had n bytes left at the part's
\* start has consumed c = min(n, 41412*4096) bytes and written
\* s = ceil(c / (204*4096)) <= 203 subparts, all full except possibly the
\* last; the part file is 4096 + s*4096 + c bytes long.
C4_PartSizes ==
    \A i \in 1..Len(parts) :
        parts[i].pc = "done" =>
            LET start == handle_at_call(i - 1) + (i - 1) * 41412 * 4096
                n == Max(src.len - start, 0)
                c == Min(n, 41412 * 4096)
                s == CHOOSE k \in 0..204 : k * 204 * 4096 >= c /\ (k = 0 \/ (k - 1) * 204 * 4096 < c)
                data == DataOf(parts[i].file)
            IN /\ parts[i].dpos = start + c
               /\ s <= 203
               /\ Len(data) = s
               /\ \A j \in 1..Len(data) :
                     data[j].len = IF j < s THEN 204 * 4096 ELSE c - (s - 1) * 204 * 4096
               /\ FileSize(parts[i].file) = 4096 + s * 4096 + c

\* C4 witness: the source of 204*4096 + 1 bytes has given a part file of two
\* subparts, the second of one byte.
C4_Witness ==
    /\ parts # <<>>
    /\ parts[1].pc = "done"
    /\ src.len = 204 * 4096 + 1
    /\ Len(DataOf(parts[1].file)) = 2
    /\ FileSize(parts[1].file) = 3 * 4096 + 204 * 4096 + 1

\* C5: when write_part has returned, its part file is the master HashList
\* followed by one (HashList, data) pair per subpart; every HashList is 4096
\* bytes; the HashList of subpart j holds, in order, the SHA-1 of each block
\* of the subpart's data (a short last block at its own length) and nothing
\* else; the master HashList holds one entry per subpart, entry j being the
\* SHA-1 of the 4096 bytes of subpart j's HashList.
C5_PartLayout ==
    WrittenOnly =>
        \A i \in 1..Len(parts) :
            LET file == parts[i].file
                s == (Len(file) - 1) \div 2
                master == file[1]
            IN /\ Len(file) = 2 * s + 1
               /\ master.kind = "hl" /\ master.image.len = 4096
               /\ Count(master.image.runs) = s
               /\ \A j \in 1..s :
                     LET hl == file[2 * j]
                         data == file[2 * j + 1]
                         nb == div_ceil(data.len, 4096)
                     IN /\ hl.kind = "hl" /\ hl.image.len = 4096
                        /\ data.kind = "data" /\ data.len > 0
                        /\ Count(hl.image.runs) = nb
                        /\ \A k \in 1..nb :
                              EntryAt(hl.image.runs, k) =
                                  sha1("block", block_bytes(src, (data.from \div 4096) + k - 1,
                                                            Min(4096, data.len - (k - 1) * 4096)))
                        /\ EntryAt(master.image.runs, j) = sha1("list", hl.image)

\* C5 witness: write_part has returned for both parts of a source whose
\* first block differs from its other blocks.
C5_Witness ==
    WrittenOnly /\ Len(parts) = 2 /\ src.mark = 0 /\ Len(parts[1].file) = 2 * 203 + 1

C7_BackwardChain ==
    PassDone(1) =>
        /\ Len(clog) = Len(parts) - 1
        /\ \A k \in 1..Len(clog) : clog[k] = Len(parts) - 1 - k
        /\ \A i \in 1..(Len(parts) - 1) :
              LET produced == parts[i].master_hash_list
                  disk == parts[i].file[1].image
              IN /\ disk.len = 4096
                 /\ Count(disk.runs) = Count(produced) + 1
                 /\ \A k \in 1..Count(produced) : EntryAt(disk.runs, k) = EntryAt(produced, k)
                 /\ EntryAt(disk.runs, Count(produced) + 1) = sha1("list", parts[i + 1].file[1].image)

\* C7 witness: the pass over three parts is done, the middle part's list was
\* extended before the first part's.
C7_Witness ==
    PassDone(1) /\ Len(parts) >= 3 /\ Len(clog) = Len(parts) - 1 /\ clog[Len(clog)] = 0

C9_Idempotent == PassDone(2) => Masters(parts) = snaps[2]

\* C9 (amended): a second backward pass leaves the last part's master
\* HashList as the first pass left it, and no other: every other part keeps
\* the entries it had and gains the digest of the next part's master
\* HashList as it is on disk after the second pass, cut off at 4096 bytes.
C9_SecondPassAppends ==
    PassDone(2) =>
        /\ parts[Len(parts)].file[1].image = snaps[2][Len(parts)]
        /\ \A i \in 1..(Len(parts) - 1) :
              LET first == snaps[2][i]
                  disk == parts[i].file[1].image
                  had == RunBytes(first.runs, 1)
                  room == Min(HASH_SIZE, 4096 - had)
                  next == sha1("list", parts[i + 1].file[1].image)
              IN /\ disk # first
                 /\ disk.len = 4096
                 /\ room > 0
                 /\ RunBytes(disk.runs, 1) = had + room
                 /\ \A k \in 1..(had \div HASH_SIZE) : EntryAt(disk.runs, k) = EntryAt(first.runs, k)
                 /\ disk.runs[Len(disk.runs)].h =
                        IF room = HASH_SIZE THEN next ELSE <<"prefix", room, next>>

\* C9 witness: the second pass over three parts is done; the first part,
\* of 203 subparts, had 204 entries and has 16 more bytes.
C9_Witness ==
    /\ PassDone(2) /\ Len(parts) >= 3
    /\ RunBytes(snaps[2][1].runs, 1) = 204 * 20
    /\ RunBytes(parts[1].file[1].image.runs, 1) = 4096

\* C10 (as stated): for every H built by add_hash calls, the HashList read
\* back from the 4096 bytes H.write produced has the digest of H.
C10_RoundTrip == hback # <<>> => digest(hback[1]) = digest(hlist)

\* an all-zero entry of the buffer is followed by a non-zero one
C10_ZeroInside(buffer) == \E i \in 1..(Len(buffer) - 1) : IsZero(buffer[i].h)

\* C10 (amended): the HashList read back has the digest of H exactly when
\* no all-zero entry of H is followed by a non-zero entry.
C10_RoundTripUnlessZeroInside ==
    hback # <<>> => ((digest(hback[1]) = digest(hlist)) <=> ~C10_ZeroInside(hlist))

\* C10 witness: a list of 204 entries of several values, the last one all
\* zero, has been written and read back.
C10_Witness ==
    /\ hback # <<>>
    /\ Count(hlist) = 204
    /\ Len(hlist) >= 4
    /\ IsZero(hlist[Len(hlist)].h)
    /\ ~C10_ZeroInside(hlist)

\* ---- C11 ---------------------------------------------------------------
C11_Returned == eres.kind # "pending"
C11_NoExecutable == ExeErr("no executable found in this image")

C12_BE(b, k) == ((b[k] * 256 + b[k + 1]) * 256 + b[k + 2]) * 256 + b[k + 3]
\* the 20 bytes of the stream at position p
C12_BytesAt(p) == [k \in 1..20 |-> byte_at(eimg.stream, p + k - 1)]
\* the identity record the 20 bytes b spell, big-endian
C12_Record(b) ==
    [media_id |-> C12_BE(b, 1), version |-> C12_BE(b, 5), base_version |-> C12_BE(b, 9),
     title_id |-> C12_BE(b, 13), platform |-> b[17], executable_type |-> b[18],
     disc_number |-> b[19], disc_count |-> b[20]]
C12_Header == XexSector * SECTOR_SIZE
\* the indices of the field table that hold the identity field id
C12_IdentityAt == {i \in 1..Len(eimg.xex.table) : eimg.xex.table[i][1] = 262150}
C12_Last == CHOOSE i \in C12_IdentityAt : \A j \in C12_IdentityAt : j <= i
C12_Modern == eloc.parsers = <<"xex">>

\* C12: while the modern parser scans the field table its cursor is at the
\* table position of the next pair (header_start + 24 + 8 * pairs read),
\* also after a detour to an identity record; and for a header with valid
\* magic that is readable to its end, the parser returns a record exactly
\* when the identity field id is in the table, and the record is the 20
\* bytes at header_start + that field's value decoded big-endian (of the
\* last such field, when there are several).
C12_ModernParsing ==
    /\ epc = "xex_fields" => epos = C12_Header + 24 + 8 * eloc.i
    /\ (C12_Modern /\ eres.kind = "Ok") =>
          /\ C12_IdentityAt # {}
          /\ eres.info = <<C12_Record(C12_BytesAt(C12_Header + eimg.xex.table[C12_Last][2]))>>
    /\ (C12_Modern /\ C11_Returned /\ eimg.xex.magic = XEX2 /\ eimg.xex.cut = 0 /\ C12_IdentityAt # {}) =>
          eres.kind = "Ok"

\* the identity field is the first of three fields; the record at its value
\* (768) is returned and the two later pairs were read
C12_Witness ==
    /\ C12_Modern
    /\ eres.kind = "Ok"
    /\ Len(eimg.xex.table) = 3
    /\ C12_IdentityAt = {1}
    /\ eimg.xex.table[1][2] = 768
    /\ eloc.i = 3
    /\ eres.info[1].media_id = 353769240
    /\ eres.info[1].disc_count = 40

\* ---- C13 ---------------------------------------------------------------
C13_Header == XbeSector * SECTOR_SIZE
\* a u32 from the four stream bytes at p, least significant first
C13_LE(p) ==
    byte_at(eimg.stream, p) + 256 * byte_at(eimg.stream, p + 1)
    + 65536 * byte_at(eimg.stream, p + 2) + 16777216 * byte_at(eimg.stream, p + 3)
C13_Legacy == eloc.parsers = <<"xbe">>
C13_Forward == eimg.xbe.cert >= eimg.xbe.base
C13_RecordAt == C13_Header + (C13_LE(C13_Header + 260 + 20) - C13_LE(C13_Header + 260))

\* C13: for a legacy header whose certificate address is not below its base
\* address: the parser returns a record only when the magic is 'XBEH'; the
\* record's title id is the little-endian u32 at offset 8 and its version
\* the little-endian u32 at offset 176 of the record at header_start +
\* (certificate_address - base_address), the other fields are 0, 0, 0, 0, 1,
\* 1 in the shape of the modern parser's record; and a header that is
\* readable to the end of that record gives a record.
C13_LegacyParsing ==
    (C13_Legacy /\ C13_Forward /\ C11_Returned) =>
        /\ eres.kind = "Ok" =>
              /\ eimg.xbe.magic = XBEH
              /\ eres.info[1].title_id = C13_LE(C13_RecordAt + 8)
              /\ eres.info[1].version = C13_LE(C13_RecordAt + 176)
              /\ eres.info[1].title_id = XbeSample.title_id
              /\ eres.info[1].version = XbeSample.version
              /\ DOMAIN eres.info[1] = DOMAIN C12_Record(C12_BytesAt(0))
              /\ [eres.info[1] EXCEPT !.title_id = 0, !.version = 0]
                    = [C12_Record(C12_BytesAt(0)) EXCEPT !.disc_number = 1, !.disc_count = 1]
        /\ (eimg.xbe.magic = XBEH /\ eimg.xbe.cut = 0) => eres.kind = "Ok"
        /\ eres.kind # "Panic"

\* a record 1024 bytes behind the header start was returned
C13_Witness ==
    /\ C13_Legacy
    /\ eres.kind = "Ok"
    /\ eimg.xbe.cert = eimg.xbe.base + 1024
    /\ eres.info[1].title_id = XbeSample.title_id
    /\ eres.info[1].version = XbeSample.version

\* ---- C14 ---------------------------------------------------------------
C14_Blob(b) == bld[b].buffer
C14_Zero == <<"b", 0>>

\* C14: in the blob a builder's finalize returned, the bytes at 0x035b,
\* 0x035f and 0x0391 are zero, the 20 bytes at 0x032c are the SHA-1 of the
\* bytes [0x0344, 0x0344 + 0xacbc) of that same blob, which hold every field
\* the setters wrote there, and no byte of the digest field is in the
\* hashed range.
C14_DigestOfBlob ==
    \A b \in DOMAIN bld :
        bld[b].state = "final" =>
            /\ cell_at(C14_Blob(b), 859) = C14_Zero
            /\ cell_at(C14_Blob(b), 863) = C14_Zero
            /\ cell_at(C14_Blob(b), 913) = C14_Zero
            /\ read_cells(C14_Blob(b), 812, 20)
                  = HashCells(sha1("header", slice(C14_Blob(b), 836, 836 + 44220)))
            /\ {p \in DOMAIN bld[b].before.at : p >= 836 /\ p < 836 + 44220}
                  \subseteq DOMAIN slice(C14_Blob(b), 836, 836 + 44220)
            /\ (812..831) \cap DOMAIN slice(C14_Blob(b), 836, 836 + 44220) = {}

\* a builder has finalized after setters that wrote inside the hashed range,
\* one of them an icon of 0x0400 bytes
C14_Witness ==
    /\ bld # <<>>
    /\ bld[1].state = "final"
    /\ "with_game_icon" \in bld[1].calls
    /\ "with_mht_hash" \in bld[1].calls
    /\ Len(bplan.png_bytes) = 1024

\* ---- C15 ---------------------------------------------------------------
\* byte i (0 the least significant) of the number v
C15_Byte(v, i) == <<"b", (v \div (256 ^ i)) % 256>>
\* the cells c stored from offset p on, as a function of the offsets
C15_At(p, c) == [q \in p..(p + Len(c) - 1) |-> c[q - p + 1]]
C15_Join(f, g) == [q \in (DOMAIN f) \cup (DOMAIN g) |-> IF q \in DOMAIN f THEN f[q] ELSE g[q]]
\* the field of each setter: its offsets and the bytes the claim gives them
C15_Field(n) ==
    CASE n = "with_content_type" ->
            C15_At(836, <<C15_Byte(bplan.content_type, 3), C15_Byte(bplan.content_type, 2),
                          C15_Byte(bplan.content_type, 1), C15_Byte(bplan.content_type, 0)>>)
      [] n = "with_execution_info" ->
            C15_Join(C15_At(852, <<C15_Byte(bplan.exe_info.media_id, 3), C15_Byte(bplan.exe_info.media_id, 2),
                                   C15_Byte(bplan.exe_info.media_id, 1), C15_Byte(bplan.exe_info.media_id, 0)>>),
                     C15_At(864, <<C15_Byte(bplan.exe_info.title_id, 3), C15_Byte(bplan.exe_info.title_id, 2),
                                   C15_Byte(bplan.exe_info.title_id, 1), C15_Byte(bplan.exe_info.title_id, 0),
                                   <<"b", bplan.exe_info.platform>>, <<"b", bplan.exe_info.executable_type>>,
                                   <<"b", bplan.exe_info.disc_number>>, <<"b", bplan.exe_info.disc_count>> >>))
      [] n = "with_block_counts" ->
            C15_At(914, <<C15_Byte(bplan.blocks_allocated, 2), C15_Byte(bplan.blocks_allocated, 1),
                          C15_Byte(bplan.blocks_allocated, 0),
                          C15_Byte(bplan.blocks_not_allocated, 1), C15_Byte(bplan.blocks_not_allocated, 0)>>)
      [] n = "with_mht_hash" -> C15_At(893, [k \in 1..20 |-> <<"h", k, bplan.mht_hash>>])
      [] n = "with_data_parts_info" ->
            C15_At(928, <<C15_Byte(bplan.part_count, 0), C15_Byte(bplan.part_count, 1),
                          C15_Byte(bplan.part_count, 2), C15_Byte(bplan.part_count, 3),
                          <<"b", bplan.parts_total_size[4]>>, <<"b", bplan.parts_total_size[5]>>,
                          <<"b", bplan.parts_total_size[6]>>, <<"b", bplan.parts_total_size[7]>> >>)
      [] n = "with_game_icon" ->
            C15_Join(C15_At(5906, <<C15_Byte(Len(bplan.png_bytes), 3), C15_Byte(Len(bplan.png_bytes), 2),
                                    C15_Byte(Len(bplan.png_bytes), 1), C15_Byte(Len(bplan.png_bytes), 0),
                                    C15_Byte(Len(bplan.png_bytes), 3), C15_Byte(Len(bplan.png_bytes), 2),
                                    C15_Byte(Len(bplan.png_bytes), 1), C15_Byte(Len(bplan.png_bytes), 0)>>
                                    \o bplan.png_bytes),
                     C15_At(22298, bplan.png_bytes))
\* the offsets finalize writes: 'LIVE', the three control bytes, the digest
C15_Finalized == (0..3) \cup {859, 863, 913} \cup (812..831)
\* the bytes written over the template by the setters in c
C15_Part(c, n) == IF n \in c THEN C15_Field(n) ELSE [q \in {} |-> <<"b", 0>>]
C15_Fields(c) ==
    C15_Join(C15_Join(C15_Join(C15_Join(C15_Join(C15_Part(c, "with_content_type"),
        C15_Part(c, "with_execution_info")), C15_Part(c, "with_block_counts")),
        C15_Part(c, "with_mht_hash")), C15_Part(c, "with_data_parts_info")),
        C15_Part(c, "with_game_icon"))
\* the offsets of each setter's field
C15_Offsets(n) ==
    CASE n = "with_content_type" -> 836..839
      [] n = "with_execution_info" -> (852..855) \cup (864..871)
      [] n = "with_block_counts" -> 914..918
      [] n = "with_mht_hash" -> 893..912
      [] n = "with_data_parts_info" -> 928..935
      [] n = "with_game_icon" -> (5906..(5913 + 1024)) \cup (22298..(22297 + 1024))
C15_Disjoint ==
    /\ \A n1, n2 \in Setters : n1 # n2 => C15_Offsets(n1) \cap C15_Offsets(n2) = {}
    /\ \A n \in Setters : C15_Offsets(n) \cap C15_Finalized = {}
\* the setters called have left exactly their fields in builder b's buffer
C15_Stored(b) ==
    /\ \A n \in bld[b].calls : DOMAIN C15_Field(n) \subseteq C15_Offsets(n)
    /\ IF bld[b].state = "final"
       THEN /\ bld[b].before.at = C15_Fields(bld[b].calls)
            /\ DOMAIN bld[b].buffer.at = (DOMAIN bld[b].before.at) \cup C15_Finalized
            /\ \A q \in (DOMAIN bld[b].before.at) : bld[b].buffer.at[q] = bld[b].before.at[q]
       ELSE bld[b].buffer.at = C15_Fields(bld[b].calls)
\* the number stored for the total size is size / 256: the size is below 2^40
C15_SizeFits == SubSeq(bplan.parts_total_size, 1, 3) = <<0, 0, 0>>

\* C15 as stated: every call of a setter stores its argument in its field
\* and leaves the other bytes alone, in any call order.
C15_Original ==
    /\ C15_Disjoint
    /\ \A b \in DOMAIN bld :
          /\ ~(bld[b].state = "panicked" /\ bld[b].last # "with_game_icon")
          /\ bld[b].state # "panicked" => C15_Stored(b)
          /\ "with_data_parts_info" \in bld[b].calls => C15_SizeFits

\* C15, amended: the fields of the setters are pairwise disjoint and
\* disjoint from what finalize writes; whatever the order of the calls, the
\* buffer of a builder holds exactly the fields of the setters called, each
\* with the width and byte order stated, where the total size field holds
\* (size / 256) modulo 2^32; except that with_block_counts with an allocated
\* count of 2^24 or more panics and has written no byte.
C15_FieldsStored ==
    /\ C15_Disjoint
    /\ \A b \in DOMAIN bld :
          /\ bld[b].state # "panicked" => C15_Stored(b)
          /\ (bld[b].state = "panicked" /\ bld[b].last = "with_block_counts") =>
                /\ bplan.blocks_allocated >= 16777216
                /\ bld[b].buffer.at = bld[b].before.at
          /\ ("with_block_counts" \in bld[b].calls /\ bplan.blocks_allocated >= 16777216) =>
                bld[b].state = "panicked" /\ bld[b].last = "with_block_counts"
          /\ (bld[b].state = "panicked") => bld[b].last \in {"with_block_counts", "with_game_icon"}

\* the second builder has called main's five setters, the execution info
\* last (main calls it first), with the largest allocated count that fits
C15_Witness ==
    /\ bld # <<>>
    /\ bld[2].state = "building"
    /\ bld[2].calls = MainSetters
    /\ bld[2].last = "with_execution_info"
    /\ bplan.blocks_allocated = 16777215
    /\ bplan.blocks_not_allocated = 513

\* ---- C18 ---------------------------------------------------------------
C18_IconOffsets == (5906..(5914 + 1024 - 1)) \cup (22298..(22298 + 1024 - 1))
C18_TooLong == Len(bplan.png_bytes) > 1024

\* C18: with_game_icon panics exactly on a payload longer than 0x0400
\* bytes, and the buffer is then as it was before the call; a buffer that
\* has a byte of the icon fields written has all of them written, by a
\* call with a payload that fits.
C18_IconFailsFast ==
    \A b \in DOMAIN bld :
        /\ (bld[b].state = "panicked" /\ bld[b].last = "with_game_icon") =>
              /\ C18_TooLong
              /\ bld[b].buffer.at = bld[b].before.at
        /\ ("with_game_icon" \in bld[b].calls /\ C18_TooLong) =>
              bld[b].state = "panicked" /\ bld[b].last = "with_game_icon"
        /\ (C18_IconOffsets \cap DOMAIN bld[b].buffer.at # {}) =>
              /\ "with_game_icon" \in bld[b].calls
              /\ ~C18_TooLong
              /\ read_cells(bld[b].buffer, 5914, Len(bplan.png_bytes)) = bplan.png_bytes
              /\ read_cells(bld[b].buffer, 22298, Len(bplan.png_bytes)) = bplan.png_bytes
              /\ (5906..5913) \subseteq DOMAIN bld[b].buffer.at

\* a payload of 0x0401 bytes made the call panic after two other setters
C18_Witness ==
    /\ bld # <<>>
    /\ bld[1].state = "panicked"
    /\ bld[1].last = "with_game_icon"
    /\ Len(bplan.png_bytes) = 1025
    /\ bld[1].calls = {"with_game_icon", "with_content_type", "with_execution_info"}

\* ---- C20 ---------------------------------------------------------------
\* C20: when both builders, made from the template and given the same
\* field inputs (in whatever order), have finalized, their blobs are equal
\* byte for byte, the digest at 0x032c included.
C20_Deterministic ==
    (bld # <<>> /\ bld[1].state = "final" /\ bld[2].state = "final") =>
        /\ bld[1].buffer = bld[2].buffer
        /\ read_cells(bld[1].buffer, 812, 20) = read_cells(bld[2].buffer, 812, 20)

\* both have finalized after all six setters, called in different orders
C20_Witness ==
    /\ bld # <<>>
    /\ bld[1].state = "final"
    /\ bld[2].state = "final"
    /\ bld[1].calls = Setters
    /\ bld[1].last = "with_mht_hash"
    /\ bld[2].last = "with_block_counts"

\* ---- C19 ---------------------------------------------------------------
C19_PartBytes == 41412 * 4096
\* n is the ceiling of a / b
C19_IsCeil(n, a, b) == n * b >= a /\ (n - 1) * b < a

C17_Matches(t) == root_offset(t) + 32 * 2048 + 20 <= dStream.len /\ t \in dStream.sig
C17_NoMatch == \A t \in IsoTypes : ~C17_Matches(t)
\* what each routine returns for 'no candidate matches'
C17_NoMatchResult ==
    CASE dRoutine = "IsoType_read" -> <<"None">>
      [] dRoutine = "VolumeDescriptor_read" -> <<"invalid ISO format">>
      [] dRoutine = "Fs_try_read_from_iso" -> <<"NotFound">>
      [] dRoutine = "Iso_read_from_range" -> <<"InvalidData">>
C17_Order ==
    IF dRoutine \in {"IsoType_read", "VolumeDescriptor_read"} THEN <<"Xsf", "Xgd2", "Xgd1", "Xgd3">>
    ELSE <<"Xgd3", "Xgd2", "Xgd1", "Xsf">>
\* the first candidate, in the routine's order, that matches
C17_First == C17_Order[CHOOSE i \in 1..4 : C17_Matches(C17_Order[i])
                                           /\ \A j \in 1..(i - 1) : ~C17_Matches(C17_Order[j])]
C17_Failed == dResult[1] # "Ok"

C16_PartBytes == 41412 * 4096
\* the bytes of the data region part file i has read so far are in
\* [(i - 1) * 41412 * 4096, i * 41412 * 4096): its handle has moved from the
\* start of that range forward, not past its end, and every data segment
\* copied lies in it
C16_ReadsOwnRange(i) ==
    parts[i].pc # "new" =>
        /\ parts[i].dpos >= (i - 1) * C16_PartBytes
        /\ parts[i].dpos <= i * C16_PartBytes
        /\ \A k \in 1..Len(parts[i].file) :
              parts[i].file[k].kind = "data" =>
                  /\ parts[i].file[k].from >= (i - 1) * C16_PartBytes
                  /\ parts[i].file[k].from + parts[i].file[k].len <= i * C16_PartBytes

\* C16: every write_part, called in index order or by the pool, reads only
\* its own range of the data region; and whenever a pool worker's
\* write_part has returned, whatever the other workers have done by then,
\* its part file is the one the run in index order wrote.
C16_ParallelSafe ==
    /\ \A i \in 1..Len(parts) : C16_ReadsOwnRange(i)
    /\ gpc = "pool" =>
          \A i \in 1..Len(parts) : parts[i].pc = "done" => parts[i].file = pref[i]

\* the worker of the second part has returned while the worker of the
\* first is in its 101st subpart
C16_Witness ==
    /\ gpc = "pool"
    /\ parts[2].pc = "done"
    /\ Len(parts[2].file) = 7
    /\ parts[1].pc = "loop"
    /\ parts[1].subpart_index = 100

\* ---- C28 ---------------------------------------------------------------
RECURSIVE C28_Run(_, _, _)
\* the result of routine r on stream s from candidate index i on
C28_Run(r, s, i) ==
    CASE r = "IsoType_read" ->
           IF i > Len(IsoTypeReadOrder) THEN <<"None">>
           ELSE IF check(s, IsoTypeReadOrder[i]) THEN <<"Ok", IsoTypeReadOrder[i]>>
           ELSE C28_Run(r, s, i + 1)
      [] r = "Fs_try_read_from_iso" ->
           IF i > Len(SUPPORTED_TYPES) THEN <<"NotFound">>
           ELSE IF try_read_from_offset(s, SUPPORTED_TYPES[i]) # <<"NotFound">>
                  THEN try_read_from_offset(s, SUPPORTED_TYPES[i])
           ELSE C28_Run(r, s, i + 1)
      [] r = "Iso_read_from_range" ->
           IF i > Len(ALL_SUPPORTED) THEN <<"InvalidData">>
           ELSE IF /\ read_exact_ok(s, 0 + root_offset(ALL_SUPPORTED[i]) + DESCRIPTOR_OFFSET, MagicLen)
                   /\ magic_at(s, ALL_SUPPORTED[i])
                  THEN <<"Ok", ALL_SUPPORTED[i]>>
           ELSE C28_Run(r, s, i + 1)
\* what the caller learns: the filesystem offset selected, or a failure
C28_Selected(result) ==
    IF result[1] = "Ok" THEN <<"offset", root_offset(result[2])>> ELSE <<"fails">>

\* C28 (as stated): the three detection routines agree: on every stream
\* they all fail or all select the variant with the same filesystem offset.
\* When a routine has returned, the other two routines, run on the same
\* stream, select the same offset or fail as well.
C28_RoutinesAgree ==
    (dRoutine \in Routines /\ dResult # <<"pending">>) =>
        /\ dResult = C28_Run(dRoutine, dStream, 1)
        /\ \A r \in Routines :
              C28_Selected(C28_Run(r, dStream, 1)) = C28_Selected(dResult)

\* ---- C26 ---------------------------------------------------------------
\* a legacy header with the magic and both addresses readable, whose
\* certificate address is below its base address, was parsed
C26_Backward ==
    /\ C13_Legacy /\ C11_Returned
    /\ eimg.xbe.magic = XBEH /\ eimg.xbe.cut = 0
    /\ C13_LE(C13_Header + 280) < C13_LE(C13_Header + 260)

\* C26 (as stated): a legacy header whose certificate_address is smaller
\* than its base_address is rejected with an error surfaced to the caller:
\* the parser neither aborts the program nor returns a record read at the
\* wrapped offset.
C26_BackwardRejected ==
    C26_Backward => eres.kind = "Err"

\* ---- C22 ---------------------------------------------------------------
\* builder b has just returned from with_game_title
C22_Called(b) == bld[b].last = "with_game_title" /\ bld[b].state # "final"
\* the title as null-terminated UTF-16 big-endian bytes
C22_Encoded ==
    LET units == encode_utf16(bplan.game_title) \o <<0>>
    IN [k \in 1..(2 * Len(units)) |->
          IF k % 2 = 1 THEN <<"b", units[(k + 1) \div 2] \div 256>>
          ELSE <<"b", units[k \div 2] % 256>>]
\* the icon fields: the two lengths at 0x1712 and 0x1716, the two copies of
\* the image at 0x171a and 0x571a
C22_IconFields == (5906..5913) \cup (5914..(5914 + 1023)) \cup (22298..(22298 + 1023))

\* C22 (as stated): with_game_title is bounds-checked: for every title it
\* returns with the title stored as null-terminated UTF-16 big-endian code
\* units at 0x0411 and at 0x1691, and with no byte of the icon fields
\* changed.
C22_TitleBoundsChecked ==
    \A b \in DOMAIN bld :
        C22_Called(b) =>
            /\ ~bld[b].buffer.panicked
            /\ read_cells(bld[b].buffer, 1041, Len(C22_Encoded)) = C22_Encoded
            /\ read_cells(bld[b].buffer, 5777, Len(C22_Encoded)) = C22_Encoded
            /\ \A q \in C22_IconFields : cell_at(bld[b].buffer, q) = cell_at(bld[b].before, q)

\* ---- C24 ---------------------------------------------------------------
RECURSIVE C24_TableRecs(_)
\* the records of a directory table and of its subdirectories
C24_TableRecs(tbl) ==
    UNION {{tbl.entries[i].rec} \cup
           (IF tbl.entries[i].subdirectory = <<>> THEN {}
            ELSE C24_TableRecs(tbl.entries[i].subdirectory[1])) : i \in 1..Len(tbl.entries)}
\* the entries the reader has handed to its caller
C24_Returned ==
    IF rdr = "DirectoryTable"
      THEN (IF res.kind = "Ok" THEN C24_TableRecs(res.val) ELSE {})
      ELSE {out[i] : i \in 1..Len(out)}
\* the records as they stand in the image
C24_Stored == UNION {{img.secs[s][k] : k \in 1..Len(img.secs[s])} : s \in 1..Len(img.secs)}
RECURSIVE C24_Start(_, _)
\* the byte of its sector at which record k of recs starts
C24_Start(recs, k) == IF k = 1 THEN 0 ELSE C24_Start(recs, k - 1) + RecordBytes(recs[k - 1])
\* the stream ends inside record k of the root directory: behind its left
\* and right fields and in front of the end of its name
C24_CutInside(k) ==
    LET recs == img.secs[img.root.sector + 1]
        start == img.root.sector * SECTOR_SIZE + C24_Start(recs, k)
    IN /\ start + 4 <= StreamLen(img)
       /\ StreamLen(img) < start + 14 + Len(recs[k].name)

\* C24 (as stated): a truncated directory record is an error: when the
\* stream ends inside a record of the directory read, the reader returns an
\* I/O error, and no reader ever returns an entry whose name is not the
\* whole name stored in the image (shorter, or padded with bytes that were
\* not read).
C24_TruncatedIsError ==
    res.kind \in {"Ok", "Err"} =>
        /\ C24_Returned \subseteq C24_Stored
        /\ (\E k \in 1..Len(img.secs[img.root.sector + 1]) : C24_CutInside(k)) => res.kind = "Err"

\* ---- C29 ---------------------------------------------------------------
\* C29 (as stated): reading the whole directory tree terminates on every
\* finite image: every reader that keeps taking its steps ends with a result
\* or an error, also when a directory entry's extent points at its own
\* directory or at one of its ancestors.
C29_TreeReadTerminates == <>(res.kind \in {"Ok", "Err"})

\* ---- C23 ---------------------------------------------------------------
RECURSIVE C23_DirIter(_, _, _, _)
\* the entries DirIter yields for extent e from position p on, behind acc
C23_DirIter(im, e, p, acc) ==
    LET r == try_next(im, e, p)
    IN CASE r.kind = "some" -> C23_DirIter(im, r.ext, r.pos, Append(acc, r.rec[1]))
         [] r.kind = "end"  -> Ok(acc)
         [] r.kind = "eof"  -> Err
\* the two lazy readers on the directory extent (sector, size)
C23_Lazy(im, sector, size) ==
    {C23_DirIter(im, [sector |-> sector, size |-> size], 0 + sector * SECTOR_SIZE, <<>>),
     read_from_range(im, 0 + sector * SECTOR_SIZE, 0 + sector * SECTOR_SIZE + size,
                     0 + sector * SECTOR_SIZE, <<>>)}
RECURSIVE C23_Tables(_)
\* a directory table and the tables of its subdirectories
C23_Tables(tbl) ==
    {tbl} \cup UNION {IF tbl.entries[i].subdirectory = <<>> THEN {}
                      ELSE C23_Tables(tbl.entries[i].subdirectory[1]) : i \in 1..Len(tbl.entries)}
C23_Recs(tbl) == [i \in 1..Len(tbl.entries) |-> tbl.entries[i].rec]

\* C23 (as stated): the eager reader and the lazy readers produce the
\* identical ordered sequence of entries for every directory extent of every
\* image: for every directory of the tree DirectoryTable::read has returned,
\* DirIter and Dir::read_from_range on that directory's extent give the
\* table's entries in the table's order; and what a lazy reader returns for
\* the root extent is what the other lazy reader returns.
C23_EagerEqualsLazy ==
    /\ (rdr = "DirectoryTable" /\ res.kind = "Ok") =>
          \A tbl \in C23_Tables(res.val) :
              C23_Lazy(img, tbl.sector, tbl.size) = {Ok(C23_Recs(tbl))}
    /\ (rdr \in {"DirIter", "Dir"} /\ res.kind \in {"Ok", "Err"}) =>
          C23_Lazy(img, img.root.sector, img.root.size) = {res}

\* ---- C21 ---------------------------------------------------------------
\* C21 (as stated): the backward chaining pass reads a part's master
\* HashList only after write_part has returned success for every part and
\* every byte written for every part, the final rewrite of its master
\* HashList included, has reached the part file; and when writing or
\* flushing a part fails, the failure is surfaced and neither the chaining
\* pass nor the header write runs.
C21_ChainAfterFlush ==
    /\ gpc \in {"chain", "done"} =>
          \A i \in 1..Len(parts) :
              /\ parts[i].pc = "done"
              /\ snaps[1][i] = to_bytes(parts[i].master_hash_list)
    /\ (\E i \in 1..Len(parts) : parts[i].pc = "failed") =>
          /\ gpc = "failed"
          /\ snaps = <<>>
          /\ hdr = ConHeaderBuilder_new

\* ---- C25 ---------------------------------------------------------------
\* the 4096 bytes written for a HashList hold whole digests only, at most
\* 204 of them
C25_Whole(image) ==
    /\ image.len = 4096
    /\ RunBytes(image.runs, 1) % HASH_SIZE = 0
    /\ RunBytes(image.runs, 1) <= 204 * HASH_SIZE
\* the HashLists on disk: the segments of kind "hl" of the part files
C25_OnDisk(i) == {k \in 1..Len(parts[i].file) : parts[i].file[k].kind = "hl"}
\* up to the end of the first backward pass
C25_OnePass == Len(snaps) <= 1

\* C25: during a conversion (write_part for every part, then one backward
\* pass) no HashList holds more than 204 digests and none is cut when it is
\* written: write_part's master list has at most 203 entries, one per
\* subpart written; a subpart's list on disk has one entry per block of the
\* subpart, at most 204; the backward pass's list has at most 204; a master
\* list on disk has the entries of write_part's list, and one more once the
\* pass has rewritten it; and every list on disk is 4096 bytes of whole
\* digests and zero padding.
C25_ListsFit ==
    C25_OnePass =>
        /\ Count(mht) <= 204 /\ RunBytes(mht, 1) % HASH_SIZE = 0
        /\ gpc \in {"chain", "done"} => to_bytes(mht) = Bytes(4096, mht)
        /\ \A i \in 1..Len(parts) :
              LET p == parts[i]
                  data == DataOf(p.file)
              IN /\ Count(p.master_hash_list) <= 203
                 /\ Count(p.master_hash_list) = Len(data)
                 /\ \A k \in C25_OnDisk(i) : C25_Whole(p.file[k].image)
                 /\ \A j \in 1..Len(data) :
                       /\ div_ceil(data[j].len, BLOCK_SIZE) <= 204
                       /\ Count(p.file[2 * j].image.runs) = div_ceil(data[j].len, BLOCK_SIZE)
                 /\ p.pc = "done" =>
                       Count(p.file[1].image.runs)
                           = Count(p.master_hash_list) + (IF (i - 1) \in {clog[k] : k \in 1..Len(clog)} THEN 1 ELSE 0)

\* C25 witness: the pass is done over parts of which the first has 203
\* subparts of 204 blocks: its master list holds 204 digests.
C25_Witness ==
    /\ PassDone(1) /\ Len(parts) >= 2
    /\ Count(parts[1].master_hash_list) = 203
    /\ Count(parts[1].file[1].image.runs) = 204
    /\ Count(parts[1].file[2].image.runs) = 204
    /\ Count(mht) = 204

\* ---- C27 ---------------------------------------------------------------
RECURSIVE C27_SumOfSizes(_)
\* the sum of the lengths of the part files 1..i
C27_SumOfSizes(i) == IF i = 0 THEN 0 ELSE C27_SumOfSizes(i - 1) + FileSize(parts[i].file)
\* the u32 of the four cells at offset p of the header, most significant first
C27_U32At(p) ==
    LET c == read_cells(hdr, p, 4)
    IN ((c[1][2] * 256 + c[2][2]) * 256 + c[3][2]) * 256 + c[4][2]

C30_InPass == gpc = "chain" \/ gpc' = "chain"
\* the part files the step has changed
C30_Changed == {i \in 1..Len(parts) : parts'[i].file # parts[i].file}

\* C30: a step of the backward pass changes nothing but the first 4096
\* bytes, the master HashList, of one of the parts 0..N-2: the subpart
\* HashLists and the data blocks of every part file, the length of every
\* part file and the whole of the last part file stay as they are.
C30_PassFrame ==
    [][C30_InPass =>
          /\ Len(parts') = Len(parts)
          /\ C30_Changed \subseteq 1..(Len(parts) - 1)
          /\ \A i \in 1..Len(parts) :
                /\ Tail(parts'[i].file) = Tail(parts[i].file)
                /\ FileSize(parts'[i].file) = FileSize(parts[i].file)
                /\ parts'[i].file[1].kind = "hl" /\ parts'[i].file[1].len = 4096
          /\ parts'[Len(parts)].file = parts[Len(parts)].file]_vars

\* C30 witness: the pass over three parts is done and has changed the
\* master HashLists of the first two, whose files have data behind them.
C30_Witness ==
    /\ PassDone(1) /\ Len(parts) = 3
    /\ Masters(parts)[1] # snaps[1][1] /\ Masters(parts)[2] # snaps[1][2]
    /\ Masters(parts)[3] = snaps[1][3]
    /\ Len(parts[1].file) = 2 * 203 + 1
====
